---------------------------- MODULE Spec2Model ----------------------------
(***************************************************************************)
(* A model of the marquee HTML widget: the character-level state-machine  *)
(* parser (StateMachineParser) and the viewport controller (HTMLWidget's  *)
(* Update and Render).                                                     *)
(*                                                                         *)
(* Strings are sequences of one-character strings, so that the parser     *)
(* reads its input rune by rune as the Go code does.  The tree is a heap  *)
(* of HTMLNode records (nodes); a node's children are the nodes whose     *)
(* Parent is its index, in index order, which is the order in which the   *)
(* parser appends them to Children.                                       *)
(***************************************************************************)
EXTENDS Integers, Sequences, FiniteSets, TLC

(***************************************************************************)
(* String literals of the source.                                         *)
(***************************************************************************)
Str_p == <<"p">>
Str_div == <<"d", "i", "v">>
Str_h1 == <<"h", "1">>
Str_h2 == <<"h", "2">>
Str_h3 == <<"h", "3">>
Str_h4 == <<"h", "4">>
Str_h5 == <<"h", "5">>
Str_h6 == <<"h", "6">>
Str_ul == <<"u", "l">>
Str_ol == <<"o", "l">>
Str_li == <<"l", "i">>
Str_pre == <<"p", "r", "e">>
Str_hr == <<"h", "r">>
Str_a == <<"a">>
Str_b == <<"b">>
Str_i == <<"i">>
Str_span == <<"s", "p", "a", "n">>
Str_code == <<"c", "o", "d", "e">>
Str_strong == <<"s", "t", "r", "o", "n", "g">>
Str_em == <<"e", "m">>
Str_dl == <<"d", "l">>
Str_dt == <<"d", "t">>
Str_dd == <<"d", "d">>
Str_table == <<"t", "a", "b", "l", "e">>
Str_thead == <<"t", "h", "e", "a", "d">>
Str_tbody == <<"t", "b", "o", "d", "y">>
Str_tr == <<"t", "r">>
Str_th == <<"t", "h">>
Str_td == <<"t", "d">>
Str_br == <<"b", "r">>
Str_document == <<"d", "o", "c", "u", "m", "e", "n", "t">>
Str_style == <<"s", "t", "y", "l", "e">>
Str_href == <<"h", "r", "e", "f">>
FontWeightBold == <<"f", "o", "n", "t", "-", "w", "e", "i", "g", "h", "t", ":", " ", "b", "o", "l", "d">>
FontStyleItalic == <<"f", "o", "n", "t", "-", "s", "t", "y", "l", "e", ":", " ", "i", "t", "a", "l", "i", "c">>

(***************************************************************************)
(* strings.ToLower, strings.TrimSpace and the parser's own whitespace.    *)
(***************************************************************************)
UpperCase == ("A" :> "a") @@ ("B" :> "b") @@ ("C" :> "c") @@ ("D" :> "d") @@ ("E" :> "e") @@ ("F" :> "f") @@ ("G" :> "g") @@ ("H" :> "h") @@ ("I" :> "i") @@ ("J" :> "j") @@ ("K" :> "k") @@ ("L" :> "l") @@ ("M" :> "m") @@ ("N" :> "n") @@ ("O" :> "o") @@ ("P" :> "p") @@ ("Q" :> "q") @@ ("R" :> "r") @@ ("S" :> "s") @@ ("T" :> "t") @@ ("U" :> "u") @@ ("V" :> "v") @@ ("W" :> "w") @@ ("X" :> "x") @@ ("Y" :> "y") @@ ("Z" :> "z")

ToLower(s) == [k \in 1..Len(s) |-> IF s[k] \in DOMAIN UpperCase THEN UpperCase[s[k]] ELSE s[k]]

\* unicode.IsSpace, on the characters the model's inputs use
IsSpace(c) == c \in {" ", "\t", "\n", "\r"}

\* the whitespace the tag states skip: ' ', '\t', '\n'
IsTagSpace(c) == c \in {" ", "\t", "\n"}

RECURSIVE TrimLeft(_)
TrimLeft(s) == IF s # <<>> /\ IsSpace(Head(s)) THEN TrimLeft(Tail(s)) ELSE s

RECURSIVE TrimRight(_)
TrimRight(s) ==
    IF s # <<>> /\ IsSpace(s[Len(s)]) THEN TrimRight(SubSeq(s, 1, Len(s) - 1)) ELSE s

TrimSpace(s) == TrimRight(TrimLeft(s))

(***************************************************************************)
(* NewStateMachineParser: the parser's limits.                            *)
(***************************************************************************)
maxDepth == 50
maxLength == 1000000
maxErrors == 100
MaxTagLen == 20
CommentCap == 1000

StateText == "StateText"
StateTagOpen == "StateTagOpen"
StateTagName == "StateTagName"
StateAttributes == "StateAttributes"
StateAttributeName == "StateAttributeName"
StateAttributeValue == "StateAttributeValue"
StateAttributeQuoted == "StateAttributeQuoted"
StateTagClose == "StateTagClose"
StateEndTag == "StateEndTag"
StateComment == "StateComment"

NodeTypeDocument == "NodeTypeDocument"
NodeTypeElement == "NodeTypeElement"
NodeTypeText == "NodeTypeText"

ContextRoot == "ContextRoot"
ContextBlock == "ContextBlock"
ContextInline == "ContextInline"

\* an empty map[string]string
EmptyAttrs == <<>>

\* m[k] = v on a map[string]string
SetAttr(m, k, v) == [x \in (DOMAIN m) \cup {k} |-> IF x = k THEN v ELSE m[x]]

VARIABLES
    html,          \* the argument of Parse
    pc,            \* where Parse stands: "ready", "parsing", "done"
    input,         \* p.input
    position,      \* p.position
    state,         \* p.state
    nodeStack,     \* p.nodeStack: entries [Node |-> index into nodes, OriginalTag]
    textBuffer,    \* p.textBuffer
    tagBuffer,     \* p.tagBuffer
    attrName,      \* p.attrName
    attrValue,     \* p.attrValue
    currentAttrs,  \* p.currentAttrs
    quoteChar,     \* p.quoteChar
    currentDepth,  \* p.currentDepth
    errorCount,    \* p.errorCount
    nodes,         \* the HTMLNode values the parse has created; nodes[1] is the root
    document,      \* w.document as the renderer sees it: the root's children, each
                   \* with the extent and the link rectangles its handler produces
    ScrollY,       \* w.ScrollY
    TotalHeight,   \* w.TotalHeight
    WidgetHeight,  \* w.WidgetHeight
    LinkAreas,     \* w.LinkAreas
    OnLinkClick,   \* w.OnLinkClick is set (TRUE) or nil (FALSE)
    cursor,        \* the mouse cursor the last Update left
    clicked,       \* the URLs the last Update passed to w.OnLinkClick, in order
    printed,       \* the URLs the last Update printed, in order
    lastCall,      \* what ran last on the widget: "New", "Update", "Render", "Host"
    event,         \* what the platform reported to the last Update: wheel, mouse, button
    panicked,      \* the last Update ended with a panic reaching the host
    drawn,         \* the last Render: the origin it drew at
    idle,          \* Updates in a row without wheel or button and with the same
                   \* mouse position, up to 2
    fonts,         \* fm.fonts
    refCounts,     \* fm.refCounts
    fontStatus,    \* fm.fontStatus
    live,          \* the texture ids the platform holds loaded
    loads,         \* how many fonts rl.LoadFontEx has loaded
    unloads,       \* the handles passed to rl.UnloadFont, in order
    call,          \* per thread, its call of the font manager in progress
    held,          \* per thread, the handles GetFont returned to it and it has not released
    cache,         \* tmc.cache
    accessOrder,   \* tmc.accessOrder
    fontTextures,  \* tmc.fontTextures
    lookups,       \* the GetTextSize calls made so far: key and font of each
    segments,      \* the inline segments handed to renderSegmentsWithWrapping
    wrapCtx,       \* the RenderContext they are laid out in: X, Y, Width
    pieces,        \* what intelligentWordSplit returned for each segment's text,
                   \* token by token
    wrapResult,    \* what renderSegmentsWithWrapping returned, with the lines drawn
    rendered,      \* the last Render of a parsed document: the context and the
                   \* result of RenderDocument, and those of each child of the root
    widgets,       \* the widgets a host makes: whether each is made and unloaded,
                   \* its measurement cache and its regular font, and what the
                   \* counts and the other widgets were when it was made
    app,           \* the nowser host: its tabs, the widgets they hold, the loads
                   \* in flight and where its main loop stands
    table,         \* the table being laid out: its rows of cells, the width of
                   \* the render context and the column widths
    past           \* the inputs Parse was called with earlier on the same
                   \* parser, each with the tree it returned

parserVars == <<html, pc, input, position, state, nodeStack, textBuffer, tagBuffer,
                attrName, attrValue, currentAttrs, quoteChar, currentDepth,
                errorCount, nodes>>

widgetVars == <<document, ScrollY, TotalHeight, WidgetHeight, LinkAreas, OnLinkClick,
                cursor, clicked, printed, lastCall, event, panicked, drawn, idle>>

fontVars == <<fonts, refCounts, fontStatus, live, loads, unloads, call, held>>

cacheVars == <<cache, accessOrder, fontTextures, lookups>>

wrapVars == <<segments, wrapCtx, pieces, wrapResult>>

layoutVars == <<rendered>>

lifeVars == <<widgets>>

hostVars == <<app>>

tableVars == <<table>>

pastVars == <<past>>

vars == <<parserVars, widgetVars, fontVars, cacheVars, wrapVars, layoutVars, lifeVars, hostVars, tableVars, pastVars>>

nonParserVars == <<widgetVars, fontVars, cacheVars, wrapVars, layoutVars, lifeVars, hostVars, tableVars, pastVars>>
nonWidgetVars == <<parserVars, fontVars, cacheVars, wrapVars, layoutVars, lifeVars, hostVars, tableVars, pastVars>>
nonFontVars == <<parserVars, widgetVars, cacheVars, wrapVars, layoutVars, lifeVars, hostVars, tableVars, pastVars>>
nonCacheVars == <<parserVars, widgetVars, fontVars, wrapVars, layoutVars, lifeVars, hostVars, tableVars, pastVars>>
nonWrapVars == <<parserVars, widgetVars, fontVars, cacheVars, layoutVars, lifeVars, hostVars, tableVars, pastVars>>
nonLifeVars == <<parserVars, widgetVars, fontVars, cacheVars, wrapVars, layoutVars,
                 hostVars, tableVars, pastVars>>
nonHostVars == <<parserVars, widgetVars, fontVars, cacheVars, wrapVars, layoutVars,
                 lifeVars, tableVars, pastVars>>
nonHostFontVars == <<parserVars, widgetVars, cacheVars, wrapVars, layoutVars, lifeVars,
                     tableVars, pastVars>>
nonTableVars == <<parserVars, widgetVars, fontVars, cacheVars, wrapVars, layoutVars,
                  lifeVars, hostVars, pastVars>>

\* nothing handed to the paragraph layout yet
NotSplit == [Called |-> FALSE, ByToken |-> <<>>]
NotWrapped == [Called |-> FALSE]

WrapIdle ==
    /\ segments = <<>>
    /\ wrapCtx = [X |-> 0, Y |-> 0, Width |-> 0]
    /\ pieces = NotSplit
    /\ wrapResult = NotWrapped

\* no parsed document rendered yet
NotRendered == [Called |-> FALSE]

LayoutIdle == rendered = NotRendered

\* how many widgets a host makes
MaxWidgets == 2
WidgetIds == 1..MaxWidgets

\* no widget made yet
LifeIdle == widgets = [w \in WidgetIds |-> [state |-> "none"]]

\* no host running
NotStarted == [phase |-> "none"]
HostIdle == app = NotStarted

\* no table parsed
NoTable == [phase |-> "none"]
TableIdle == table = NoTable

\* Parse not called before on the parser
PastIdle == past = <<>>

(***************************************************************************)
(* The tree operations of the parser.                                     *)
(***************************************************************************)
RootNode == [Type |-> NodeTypeDocument, Tag |-> <<>>, Content |-> <<>>,
             Attributes |-> EmptyAttrs, Context |-> ContextRoot, Parent |-> 0]

Top(stack) == stack[Len(stack)]

blockTags == {Str_p, Str_div, Str_h1, Str_h2, Str_h3, Str_h4, Str_h5, Str_h6,
              Str_ul, Str_ol, Str_li, Str_pre, Str_hr}

\* determineContext without its case for a child of the root
determineContext_NoRootCase(tagName, parent) ==
    IF tagName \in blockTags THEN ContextBlock
    ELSE IF parent.Tag = Str_p \/ parent.Tag = Str_li THEN ContextInline
    ELSE parent.Context

determineContext(tagName, parent) ==
    IF tagName \in blockTags THEN ContextBlock
    ELSE IF parent.Tag = Str_p \/ parent.Tag = Str_li THEN ContextInline
    ELSE IF parent.Context = ContextRoot THEN ContextBlock
    ELSE parent.Context

containers == {Str_p, Str_div, Str_ul, Str_ol, Str_li,
               Str_h1, Str_h2, Str_h3, Str_h4, Str_h5, Str_h6,
               Str_a, Str_b, Str_i, Str_span, Str_pre, Str_code}

isContainerElement(tagName) == tagName \in containers

\* normalizeElement without its "em" case
normalizeElement_NoEm(node) ==
    IF node.Tag = Str_b \/ node.Tag = Str_strong
        THEN [node EXCEPT !.Tag = Str_span,
                          !.Attributes = SetAttr(node.Attributes, Str_style, FontWeightBold)]
    ELSE IF node.Tag = Str_i
        THEN [node EXCEPT !.Tag = Str_span,
                          !.Attributes = SetAttr(node.Attributes, Str_style, FontStyleItalic)]
    ELSE node

normalizeElement(node) ==
    IF node.Tag = Str_b
        THEN [node EXCEPT !.Tag = Str_span,
                          !.Attributes = SetAttr(node.Attributes, Str_style, FontWeightBold)]
    ELSE IF node.Tag = Str_i
        THEN [node EXCEPT !.Tag = Str_span,
                          !.Attributes = SetAttr(node.Attributes, Str_style, FontStyleItalic)]
    ELSE IF node.Tag = Str_strong
        THEN [node EXCEPT !.Tag = Str_span,
                          !.Attributes = SetAttr(node.Attributes, Str_style, FontWeightBold)]
    ELSE IF node.Tag = Str_em
        THEN [node EXCEPT !.Tag = Str_span,
                          !.Attributes = SetAttr(node.Attributes, Str_style, FontStyleItalic)]
    ELSE node

\* addTextNode storing the trimmed content
addTextNode_Trimmed(ns, stack, content) ==
    IF TrimSpace(content) = <<>> THEN ns
    ELSE IF Len(stack) = 0 THEN ns
    ELSE Append(ns, [Type |-> NodeTypeText, Tag |-> <<>>, Content |-> TrimSpace(content),
                     Attributes |-> EmptyAttrs, Context |-> ContextInline,
                     Parent |-> Top(stack).Node])

\* addTextNode: the heap after appending a text child to the top of the stack
addTextNode(ns, stack, content) ==
    IF TrimSpace(content) = <<>> THEN ns
    ELSE IF Len(stack) = 0 THEN ns
    ELSE Append(ns, [Type |-> NodeTypeText, Tag |-> <<>>, Content |-> content,
                     Attributes |-> EmptyAttrs, Context |-> ContextInline,
                     Parent |-> Top(stack).Node])

\* the element node finishOpenTag and finishSelfClosingTag build
NewElement(tagName, attrs, stack, ns) ==
    normalizeElement([Type |-> NodeTypeElement, Tag |-> tagName, Content |-> <<>>,
                      Attributes |-> attrs,
                      Context |-> determineContext(tagName, ns[Top(stack).Node]),
                      Parent |-> Top(stack).Node])

\* the depth check off by one
DepthAllowsPush_OffByOne(depth) == depth <= maxDepth

\* finishOpenTag's depth check before pushing
DepthAllowsPush(depth) == depth < maxDepth

\* the parser reads code points; the one outside ASCII that the inputs use
Str_eAcute == "U+00E9"

\* the bytes a code point takes in a string
Utf8Len(c) == IF c = Str_eAcute THEN 2 ELSE 1

\* len() of the string a buffer of code points makes
RECURSIVE ByteLen(_)
ByteLen(s) == IF s = <<>> THEN 0 ELSE Utf8Len(Head(s)) + ByteLen(Tail(s))

\* the name check that never rejects a name
ValidTagName_Any(tagName) == TRUE

\* the name check of finishOpenTag, finishSelfClosingTag and finishEndTag
ValidTagName(tagName) == ~(tagName = <<>> \/ ByteLen(tagName) > MaxTagLen)

\* finishEndTag's scan from the top of the stack: the index of the entry the
\* end tag closes, or 0 (the root, index 1, is never examined)
RECURSIVE MatchFrom(_, _, _, _)
MatchFrom(stack, ns, tagName, i) ==
    IF i <= 1 THEN 0
    ELSE IF ns[stack[i].Node].Tag = tagName \/ stack[i].OriginalTag = tagName THEN i
    ELSE MatchFrom(stack, ns, tagName, i - 1)

\* a scan that examines the entry of the root as well
RECURSIVE MatchFrom_WithRoot(_, _, _, _)
MatchFrom_WithRoot(stack, ns, tagName, i) ==
    IF i <= 0 THEN 0
    ELSE IF ns[stack[i].Node].Tag = tagName \/ stack[i].OriginalTag = tagName THEN i
    ELSE MatchFrom_WithRoot(stack, ns, tagName, i - 1)

MatchIndex_WithRoot(stack, ns, tagName) ==
    MatchFrom_WithRoot(stack, ns, tagName, Len(stack))

\* an end tag that closes the innermost open element when no entry matches
MatchIndex_OrTop(stack, ns, tagName) ==
    IF MatchFrom(stack, ns, tagName, Len(stack)) = 0 /\ Len(stack) > 1 THEN Len(stack)
    ELSE MatchFrom(stack, ns, tagName, Len(stack))

MatchIndex(stack, ns, tagName) == MatchFrom(stack, ns, tagName, Len(stack))

\* an end tag that pops the top entry only
TruncateAt_TopOnly(stack, i) == SubSeq(stack, 1, Len(stack) - 1)

\* p.nodeStack = p.nodeStack[:i], with i the matched entry (1-based here)
TruncateAt(stack, i) == SubSeq(stack, 1, i - 1)


(***************************************************************************)
(* The inputs of Parse.  An input is a concatenation of fragments: tags,  *)
(* text runs, comments.                                                    *)
(***************************************************************************)
RECURSIVE Cat(_)
Cat(ss) == IF ss = <<>> THEN <<>> ELSE Head(ss) \o Cat(Tail(ss))

Repeat(s, n) == [k \in 1..(n * Len(s)) |-> s[((k - 1) % Len(s)) + 1]]

OpenTag(t) == <<"<">> \o t \o <<">">>
CloseTag(t) == <<"<", "/">> \o t \o <<">">>
SelfClosingTag(t) == <<"<">> \o t \o <<"/", ">">>
CommentOf(c) == <<"<", "!", "-", "-">> \o c \o <<"-", "-", ">">>

\* the body of every comment the inputs hold; "#" occurs nowhere else in them
CommentBody == <<"#">>

\* how many fragments a general input has at most
MaxFrags == 4

Frags == {OpenTag(Str_p), CloseTag(Str_p), OpenTag(Str_b), CloseTag(Str_b),
          OpenTag(Str_span), CloseTag(Str_span), <<"x">>, <<" ">>,
          CommentOf(CommentBody)}

RECURSIVE FragSeqs(_)
FragSeqs(n) ==
    IF n = 0 THEN {<<>>}
    ELSE LET shorter == FragSeqs(n - 1)
         IN  shorter \cup {Append(fs, f) : fs \in {x \in shorter : Len(x) = n - 1}, f \in Frags}

GeneralInputs == {Cat(fs) : fs \in FragSeqs(MaxFrags)}

\* one element inside one parent (or none), with text inside and after it
AllTags == {Str_p, Str_div, Str_h1, Str_h2, Str_h3, Str_h4, Str_h5, Str_h6, Str_ul,
            Str_ol, Str_li, Str_pre, Str_hr, Str_a, Str_b, Str_i, Str_span, Str_code,
            Str_strong, Str_em, Str_dl, Str_dt, Str_dd, Str_table, Str_thead,
            Str_tbody, Str_tr, Str_th, Str_td, Str_br}

ParentTags == {Str_p, Str_li, Str_div, Str_span, Str_a}

PairInputs ==
    {Cat(<<OpenTag(t), <<"x">>, CloseTag(t), <<"y">>>>) : t \in AllTags}
    \cup {Cat(<<OpenTag(q), OpenTag(t), <<"x">>, CloseTag(t), <<"y">>, CloseTag(q)>>) :
            q \in ParentTags, t \in AllTags}

\* the formatting tags in several letter cases, opening and self-closing,
\* with and without attributes
FormatNames == {<<"b">>, <<"B">>, <<"i">>, <<"I">>, <<"e", "m">>, <<"E", "m">>,
                <<"E", "M">>, <<"s", "t", "r", "o", "n", "g">>,
                <<"S", "t", "r", "o", "n", "g">>, <<"S", "T", "R", "O", "N", "G">>}

FormatForms(t) ==
    {OpenTag(t) \o <<"x">> \o CloseTag(t),
     SelfClosingTag(t),
     <<"<">> \o t \o <<" ", "/", ">">>,
     <<"<">> \o t \o <<" ", "s", "t", "y", "l", "e", "=", "\"", "k", "\"", ">", "x">> \o CloseTag(t),
     <<"<">> \o t \o <<" ", "s", "t", "y", "l", "e", "=", "'", "k", "'", "/", ">">>,
     <<"<">> \o t \o <<" ", "i", "d", "=", "k", ">", "x">> \o CloseTag(t),
     <<"<">> \o t \o <<" ", "o", "n", ">", "x">> \o CloseTag(t)}

FormatInputs ==
    UNION {FormatForms(t) : t \in FormatNames}
    \cup UNION {{OpenTag(Str_p) \o f \o CloseTag(Str_p) : f \in FormatForms(t)} :
                  t \in FormatNames}

\* nesting up to and past maxDepth: how far past
DeepOver == 2

DeepInputs ==
    {Repeat(OpenTag(t), n) \o <<"x">> \o CloseTag(t) \o <<"y">> :
        t \in {Str_p, Str_b}, n \in (maxDepth - 1)..(maxDepth + DeepOver)}

\* a comment after a run of text that brings it near position CommentCap:
\* how far before and past the cap the comment starts
CapBefore == 9
CapAfter == 1

LongInputs ==
    {Repeat(<<"a">>, n) \o CommentOf(CommentBody) \o <<"t">> :
        n \in (CommentCap - CapBefore)..(CommentCap + CapAfter)}

\* <p>Hello <b>bold</b> and <i>italic</i> world</p>
Scenario1 ==
    <<"<", "p", ">", "H", "e", "l", "l", "o", " ", "<", "b", ">", "b", "o", "l", "d",
      "<", "/", "b", ">", " ", "a", "n", "d", " ", "<", "i", ">", "i", "t", "a", "l",
      "i", "c", "<", "/", "i", ">", " ", "w", "o", "r", "l", "d", "<", "/", "p", ">">>

\* <p>See <a href="https://x.y">this</a>.</p>
Scenario2 ==
    <<"<", "p", ">", "S", "e", "e", " ", "<", "a", " ", "h", "r", "e", "f", "=", "\"",
      "h", "t", "t", "p", "s", ":", "/", "/", "x", ".", "y", "\"", ">", "t", "h", "i",
      "s", "<", "/", "a", ">", ".", "<", "/", "p", ">">>

\* <ul><li>First item</li><li>Second with <b>bold</b></li></ul>
Scenario3 ==
    <<"<", "u", "l", ">", "<", "l", "i", ">", "F", "i", "r", "s", "t", " ", "i", "t",
      "e", "m", "<", "/", "l", "i", ">", "<", "l", "i", ">", "S", "e", "c", "o", "n",
      "d", " ", "w", "i", "t", "h", " ", "<", "b", ">", "b", "o", "l", "d", "<", "/",
      "b", ">", "<", "/", "l", "i", ">", "<", "/", "u", "l", ">">>

\* <p>open <b>but never closed</p><p>next</p>
Scenario4 ==
    <<"<", "p", ">", "o", "p", "e", "n", " ", "<", "b", ">", "b", "u", "t", " ", "n",
      "e", "v", "e", "r", " ", "c", "l", "o", "s", "e", "d", "<", "/", "p", ">", "<",
      "p", ">", "n", "e", "x", "t", "<", "/", "p", ">">>

\* \n <p>\tHello\n</p> <br/>\n
ScenarioSpaces ==
    <<"\n", " ", "<", "p", ">", "\t", "H", "e", "l", "l", "o", "\n", "<", "/", "p",
      ">", " ", "<", "b", "r", "/", ">", "\n">>

\* <a href='u>v' id=k on>t</a><hr noshade/><p class="c d" >w</p>
ScenarioAttrs ==
    <<"<", "a", " ", "h", "r", "e", "f", "=", "'", "u", ">", "v", "'", " ", "i", "d",
      "=", "k", " ", "o", "n", ">", "t", "<", "/", "a", ">", "<", "h", "r", " ", "n",
      "o", "s", "h", "a", "d", "e", "/", ">", "<", "p", " ", "c", "l", "a", "s", "s",
      "=", "\"", "c", " ", "d", "\"", " ", ">", "w", "<", "/", "p", ">">>

\* end tags that name the entry of the root: <p>x</document>y</p> and
\* </document>x
ScenarioDocumentInside ==
    OpenTag(Str_p) \o <<"x">> \o CloseTag(Str_document) \o <<"y">> \o CloseTag(Str_p)

ScenarioDocumentFirst == CloseTag(Str_document) \o <<"x">>

Scenarios == {Scenario1, Scenario2, Scenario3, Scenario4, ScenarioSpaces, ScenarioAttrs,
              ScenarioDocumentInside, ScenarioDocumentFirst}

Inputs == GeneralInputs \cup PairInputs \cup FormatInputs \cup DeepInputs
          \cup LongInputs \cup Scenarios

ParserFresh ==
    /\ pc = "ready"
    /\ input = <<>>
    /\ position = 0
    /\ state = StateText
    /\ nodeStack = <<>>
    /\ textBuffer = <<>>
    /\ tagBuffer = <<>>
    /\ attrName = <<>>
    /\ attrValue = <<>>
    /\ currentAttrs = EmptyAttrs
    /\ quoteChar = ""
    /\ currentDepth = 0
    /\ errorCount = 0
    /\ nodes = <<>>

ParserInit == html \in Inputs /\ ParserFresh

(***************************************************************************)
(* Parse, up to its loop: Reset, the empty input, truncation, TrimSpace,  *)
(* the root and the stack holding it.                                     *)
(***************************************************************************)
Truncate(s) == IF Len(s) > maxLength THEN SubSeq(s, 1, maxLength) ELSE s

\* Parse with a Reset that leaves the text buffer as it is
ParseBegin_KeepText ==
    /\ pc = "ready"
    /\ position' = 0
    /\ state' = StateText
    /\ tagBuffer' = <<>>
    /\ attrName' = <<>>
    /\ attrValue' = <<>>
    /\ currentAttrs' = EmptyAttrs
    /\ quoteChar' = ""
    /\ currentDepth' = 0
    /\ errorCount' = 0
    /\ nodes' = <<RootNode>>
    /\ IF Len(html) = 0
         THEN /\ pc' = "done"
              /\ input' = <<>>
              /\ nodeStack' = <<>>
         ELSE /\ pc' = "parsing"
              /\ input' = TrimSpace(Truncate(html))
              /\ nodeStack' = <<[Node |-> 1, OriginalTag |-> Str_document]>>
    /\ UNCHANGED <<html, textBuffer, nonParserVars>>

ParseBegin ==
    /\ pc = "ready"
    /\ position' = 0
    /\ state' = StateText
    /\ textBuffer' = <<>>
    /\ tagBuffer' = <<>>
    /\ attrName' = <<>>
    /\ attrValue' = <<>>
    /\ currentAttrs' = EmptyAttrs
    /\ quoteChar' = ""
    /\ currentDepth' = 0
    /\ errorCount' = 0
    /\ nodes' = <<RootNode>>
    /\ IF Len(html) = 0
         THEN /\ pc' = "done"
              /\ input' = <<>>
              /\ nodeStack' = <<>>
         ELSE /\ pc' = "parsing"
              /\ input' = TrimSpace(Truncate(html))
              /\ nodeStack' = <<[Node |-> 1, OriginalTag |-> Str_document]>>
    /\ UNCHANGED <<html, nonParserVars>>

(***************************************************************************)
(* One turn of Parse's loop.  The loop first checks the depth             *)
(* (currentDepth > maxDepth): handleParseError then either breaks out of  *)
(* the loop or puts the parser back in StateText before the switch.       *)
(***************************************************************************)
char == input[position + 1]

DepthExceeded == currentDepth > maxDepth

\* handleParseError's result: it returns false once errorCount exceeds maxErrors
ErrOk == errorCount + 1 <= maxErrors

Running == pc = "parsing" /\ position < Len(input) /\ (DepthExceeded => ErrOk)

LoopState == IF DepthExceeded THEN StateText ELSE state

\* finishOpenTag, with attrs the value of p.currentAttrs at the call
finishOpenTag(attrs) ==
    LET tagName == ToLower(tagBuffer)
    IN  IF ~ValidTagName(tagName)
          THEN /\ errorCount' = errorCount + 1
               /\ IF ErrOk
                    THEN tagBuffer' = <<>> /\ attrValue' = <<>> /\ currentAttrs' = EmptyAttrs
                    ELSE tagBuffer' = tagBuffer /\ attrValue' = attrValue /\ currentAttrs' = attrs
               /\ UNCHANGED <<nodes, nodeStack, currentDepth>>
        ELSE IF Len(nodeStack) = 0
          THEN /\ currentAttrs' = attrs
               /\ UNCHANGED <<nodes, nodeStack, currentDepth, errorCount, tagBuffer, attrValue>>
        ELSE /\ nodes' = Append(nodes, NewElement(tagName, attrs, nodeStack, nodes))
             /\ IF isContainerElement(tagName) /\ DepthAllowsPush(currentDepth)
                  THEN /\ nodeStack' = Append(nodeStack, [Node |-> Len(nodes) + 1,
                                                          OriginalTag |-> tagName])
                       /\ currentDepth' = currentDepth + 1
                  ELSE UNCHANGED <<nodeStack, currentDepth>>
             /\ tagBuffer' = <<>>
             /\ currentAttrs' = EmptyAttrs
             /\ UNCHANGED <<errorCount, attrValue>>

finishSelfClosingTag ==
    LET tagName == ToLower(tagBuffer)
    IN  IF ~ValidTagName(tagName) \/ Len(nodeStack) = 0
          THEN /\ errorCount' = errorCount + 1
               /\ IF ErrOk
                    THEN tagBuffer' = <<>> /\ attrValue' = <<>> /\ currentAttrs' = EmptyAttrs
                    ELSE UNCHANGED <<tagBuffer, attrValue, currentAttrs>>
               /\ UNCHANGED <<nodes, nodeStack, currentDepth>>
        ELSE /\ nodes' = Append(nodes, NewElement(tagName, currentAttrs, nodeStack, nodes))
             /\ tagBuffer' = <<>>
             /\ currentAttrs' = EmptyAttrs
             /\ UNCHANGED <<nodeStack, currentDepth, errorCount, attrValue>>

finishEndTag ==
    LET tagName == ToLower(tagBuffer)
        i == MatchIndex(nodeStack, nodes, tagName)
    IN  /\ tagBuffer' = <<>>
        /\ IF ~ValidTagName(tagName) \/ Len(nodeStack) <= 1 \/ i = 0
             THEN UNCHANGED <<nodeStack, currentDepth>>
             ELSE /\ nodeStack' = TruncateAt(nodeStack, i)
                  /\ currentDepth' = Len(TruncateAt(nodeStack, i)) - 1

HandleTextState ==
    /\ Running
    /\ LoopState = StateText
    /\ position' = position + 1
    /\ IF char = "<"
         THEN /\ nodes' = IF Len(textBuffer) > 0
                            THEN addTextNode(nodes, nodeStack, textBuffer) ELSE nodes
              /\ textBuffer' = <<>>
              /\ state' = StateTagOpen
         ELSE /\ textBuffer' = Append(textBuffer, char)
              /\ state' = StateText
              /\ UNCHANGED nodes
    /\ IF DepthExceeded
         THEN /\ errorCount' = errorCount + 1
              /\ tagBuffer' = <<>>
              /\ attrValue' = <<>>
              /\ currentAttrs' = EmptyAttrs
         ELSE UNCHANGED <<errorCount, tagBuffer, attrValue, currentAttrs>>
    /\ UNCHANGED nonParserVars
    /\ UNCHANGED <<html, pc, input, nodeStack, attrName, quoteChar, currentDepth>>

HandleTagOpenState ==
    /\ Running
    /\ LoopState = StateTagOpen
    /\ position' = position + 1
    /\ IF char = "/"
         THEN state' = StateEndTag /\ tagBuffer' = <<>> /\ UNCHANGED currentAttrs
       ELSE IF char = "!"
         THEN state' = StateComment /\ UNCHANGED <<tagBuffer, currentAttrs>>
       ELSE IF IsTagSpace(char)
         THEN UNCHANGED <<state, tagBuffer, currentAttrs>>
       ELSE state' = StateTagName /\ tagBuffer' = <<char>> /\ currentAttrs' = EmptyAttrs
    /\ UNCHANGED nonParserVars
    /\ UNCHANGED <<html, pc, input, nodeStack, textBuffer, attrName, attrValue,
                   quoteChar, currentDepth, errorCount, nodes>>

HandleTagNameState ==
    /\ Running
    /\ LoopState = StateTagName
    /\ position' = position + 1
    /\ IF IsTagSpace(char)
         THEN /\ state' = StateAttributes
              /\ UNCHANGED <<tagBuffer, nodes, nodeStack, currentDepth, errorCount,
                             currentAttrs, attrValue>>
       ELSE IF char = ">"
         THEN finishOpenTag(currentAttrs) /\ state' = StateText
       ELSE IF char = "/"
         THEN /\ state' = StateTagClose
              /\ UNCHANGED <<tagBuffer, nodes, nodeStack, currentDepth, errorCount,
                             currentAttrs, attrValue>>
       ELSE /\ tagBuffer' = Append(tagBuffer, char)
            /\ UNCHANGED <<state, nodes, nodeStack, currentDepth, errorCount,
                           currentAttrs, attrValue>>
    /\ UNCHANGED nonParserVars
    /\ UNCHANGED <<html, pc, input, textBuffer, attrName, quoteChar>>

HandleAttributesState ==
    /\ Running
    /\ LoopState = StateAttributes
    /\ position' = position + 1
    /\ IF char = ">"
         THEN finishOpenTag(currentAttrs) /\ state' = StateText /\ UNCHANGED attrName
       ELSE IF char = "/"
         THEN /\ state' = StateTagClose
              /\ UNCHANGED <<attrName, tagBuffer, nodes, nodeStack, currentDepth,
                             errorCount, currentAttrs, attrValue>>
       ELSE IF ~IsTagSpace(char)
         THEN /\ attrName' = <<char>>
              /\ state' = StateAttributeName
              /\ UNCHANGED <<tagBuffer, nodes, nodeStack, currentDepth, errorCount,
                             currentAttrs, attrValue>>
       ELSE UNCHANGED <<state, attrName, tagBuffer, nodes, nodeStack, currentDepth,
                        errorCount, currentAttrs, attrValue>>
    /\ UNCHANGED nonParserVars
    /\ UNCHANGED <<html, pc, input, textBuffer, quoteChar>>

HandleAttributeNameState ==
    /\ Running
    /\ LoopState = StateAttributeName
    /\ position' = position + 1
    /\ IF char = "="
         THEN /\ state' = StateAttributeValue
              /\ attrValue' = <<>>
              /\ UNCHANGED <<attrName, tagBuffer, nodes, nodeStack, currentDepth,
                             errorCount, currentAttrs>>
       ELSE IF IsTagSpace(char)
         THEN /\ currentAttrs' = SetAttr(currentAttrs, attrName, attrName)
              /\ state' = StateAttributes
              /\ UNCHANGED <<attrName, tagBuffer, nodes, nodeStack, currentDepth,
                             errorCount, attrValue>>
       ELSE IF char = ">"
         THEN /\ finishOpenTag(SetAttr(currentAttrs, attrName, attrName))
              /\ state' = StateText
              /\ UNCHANGED attrName
       ELSE /\ attrName' = Append(attrName, char)
            /\ UNCHANGED <<state, tagBuffer, nodes, nodeStack, currentDepth,
                           errorCount, currentAttrs, attrValue>>
    /\ UNCHANGED nonParserVars
    /\ UNCHANGED <<html, pc, input, textBuffer, quoteChar>>

HandleAttributeValueState ==
    /\ Running
    /\ LoopState = StateAttributeValue
    /\ position' = position + 1
    /\ IF char = "\"" \/ char = "'"
         THEN /\ quoteChar' = char
              /\ state' = StateAttributeQuoted
              /\ UNCHANGED <<tagBuffer, nodes, nodeStack, currentDepth, errorCount,
                             currentAttrs, attrValue>>
       ELSE IF IsTagSpace(char)
         THEN /\ currentAttrs' = SetAttr(currentAttrs, attrName, attrValue)
              /\ state' = StateAttributes
              /\ UNCHANGED <<quoteChar, tagBuffer, nodes, nodeStack, currentDepth,
                             errorCount, attrValue>>
       ELSE IF char = ">"
         THEN /\ finishOpenTag(SetAttr(currentAttrs, attrName, attrValue))
              /\ state' = StateText
              /\ UNCHANGED quoteChar
       ELSE /\ attrValue' = Append(attrValue, char)
            /\ UNCHANGED <<state, quoteChar, tagBuffer, nodes, nodeStack, currentDepth,
                           errorCount, currentAttrs>>
    /\ UNCHANGED nonParserVars
    /\ UNCHANGED <<html, pc, input, textBuffer, attrName>>

HandleAttributeQuotedState ==
    /\ Running
    /\ LoopState = StateAttributeQuoted
    /\ position' = position + 1
    /\ IF char = quoteChar
         THEN /\ currentAttrs' = SetAttr(currentAttrs, attrName, attrValue)
              /\ state' = StateAttributes
              /\ UNCHANGED attrValue
         ELSE /\ attrValue' = Append(attrValue, char)
              /\ UNCHANGED <<state, currentAttrs>>
    /\ UNCHANGED nonParserVars
    /\ UNCHANGED <<html, pc, input, nodeStack, textBuffer, tagBuffer, attrName,
                   quoteChar, currentDepth, errorCount, nodes>>

HandleTagCloseState ==
    /\ Running
    /\ LoopState = StateTagClose
    /\ position' = position + 1
    /\ IF char = ">"
         THEN finishSelfClosingTag /\ state' = StateText
         ELSE UNCHANGED <<state, tagBuffer, nodes, nodeStack, currentDepth, errorCount,
                          currentAttrs, attrValue>>
    /\ UNCHANGED nonParserVars
    /\ UNCHANGED <<html, pc, input, textBuffer, attrName, quoteChar>>

HandleEndTagState ==
    /\ Running
    /\ LoopState = StateEndTag
    /\ position' = position + 1
    /\ IF char = ">"
         THEN finishEndTag /\ state' = StateText
       ELSE IF ~IsTagSpace(char)
         THEN tagBuffer' = Append(tagBuffer, char) /\ UNCHANGED <<state, nodeStack, currentDepth>>
       ELSE UNCHANGED <<state, tagBuffer, nodeStack, currentDepth>>
    /\ UNCHANGED nonParserVars
    /\ UNCHANGED <<html, pc, input, textBuffer, attrName, attrValue, currentAttrs,
                   quoteChar, errorCount, nodes>>

\* handleCommentState's two exits: "-->" seen, and the position cap
CommentEnds == char = ">" /\ position >= 2 /\ input[position] = "-" /\ input[position - 1] = "-"

CommentCapped == position > CommentCap

HandleCommentState ==
    /\ Running
    /\ LoopState = StateComment
    /\ position' = position + 1
    /\ state' = IF CommentEnds \/ CommentCapped THEN StateText ELSE state
    /\ UNCHANGED nonParserVars
    /\ UNCHANGED <<html, pc, input, nodeStack, textBuffer, tagBuffer, attrName,
                   attrValue, currentAttrs, quoteChar, currentDepth, errorCount, nodes>>

(***************************************************************************)
(* Parse, after its loop: the pending text is flushed, the open elements  *)
(* are popped and the root is returned.                                   *)
(***************************************************************************)
ParseEnd ==
    /\ pc = "parsing"
    /\ position >= Len(input) \/ (DepthExceeded /\ ~ErrOk)
    /\ pc' = "done"
    /\ nodes' = IF Len(textBuffer) > 0
                  THEN addTextNode(nodes, nodeStack, textBuffer) ELSE nodes
    /\ nodeStack' = IF Len(nodeStack) > 1 THEN <<nodeStack[1]>> ELSE nodeStack
    /\ errorCount' = IF position < Len(input) THEN errorCount + 1 ELSE errorCount
    /\ UNCHANGED nonParserVars
    /\ UNCHANGED <<html, input, position, state, textBuffer, tagBuffer, attrName,
                   attrValue, currentAttrs, quoteChar, currentDepth>>

ParserNext ==
    \/ ParseBegin
    \/ HandleTextState
    \/ HandleTagOpenState
    \/ HandleTagNameState
    \/ HandleAttributesState
    \/ HandleAttributeNameState
    \/ HandleAttributeValueState
    \/ HandleAttributeQuotedState
    \/ HandleTagCloseState
    \/ HandleEndTagState
    \/ HandleCommentState
    \/ ParseEnd

(***************************************************************************)
(* The widget: NewHTMLWidget, Update and Render.  Lengths are whole       *)
(* numbers of pixels.  A child of the root stands for the outcome of its  *)
(* render handler: it is Height tall and carries link rectangles placed   *)
(* relative to the point the handler starts drawing at.                   *)
(***************************************************************************)
BodyMargin == 10
BodyPadding == 15

\* the height Update clamps against
widgetHeight == 650

\* pixels scrolled per notch of the wheel
WheelStep == 20

Str_urlA == <<"/", "a">>
Str_urlB == <<"/", "b">>
Str_urlC == <<"/", "c">>

Rect(x, y, w, h) == [X |-> x, Y |-> y, Width |-> w, Height |-> h]

DocEmpty == <<>>

DocShort == << [Height |-> 300, Links |-> <<>>] >>

\* two blocks: one link in the first, two links on consecutive lines of the
\* second (a link rectangle is as tall as its font, the lines 20 apart)
DocLong ==
    << [Height |-> 300,
        Links |-> << [Bounds |-> Rect(0, 20, 80, 16), URL |-> Str_urlA] >>],
       [Height |-> 500,
        Links |-> << [Bounds |-> Rect(0, 100, 80, 16), URL |-> Str_urlB],
                     [Bounds |-> Rect(0, 120, 80, 16), URL |-> Str_urlC] >>] >>

Documents == {DocEmpty, DocShort, DocLong}

WheelMax == 1
WheelFar == 100

\* the scroll offsets explored: rendering while scrolled raises TotalHeight by
\* ScrollY, so the range Update allows grows with every Render
ScrollCap == 200
Wheels == (-WheelMax .. WheelMax) \cup {-WheelFar, WheelFar}

MousePositions == {[X |-> 5, Y |-> 5], [X |-> 60, Y |-> 55], [X |-> 90, Y |-> 430]}

RenderOrigins == {[X |-> 0, Y |-> 0], [X |-> 20, Y |-> 20]}
RenderWidths == {860}
RenderHeights == {620, 800}

\* the values a host writes to the public field ScrollY
HostScrolls == {-20, 120}

NoEvent == [wheel |-> 0, mousePos |-> [X |-> 0, Y |-> 0], pressed |-> FALSE]

NoFrame == [origin |-> [X |-> 0, Y |-> 0]]

WidgetInit ==
    /\ document \in Documents
    /\ ScrollY = 0
    /\ TotalHeight = 0
    /\ WidgetHeight = 0
    /\ LinkAreas = <<>>
    /\ OnLinkClick \in BOOLEAN
    /\ cursor = "Default"
    /\ clicked = <<>>
    /\ printed = <<>>
    /\ lastCall = "New"
    /\ event = NoEvent
    /\ panicked = FALSE
    /\ drawn = NoFrame
    /\ idle = 0

\* rl.CheckCollisionPointRec
CheckCollisionPointRec(point, rec) ==
    /\ point.X >= rec.X
    /\ point.X < rec.X + rec.Width
    /\ point.Y >= rec.Y
    /\ point.Y < rec.Y + rec.Height

\* Update reporting every link area, hovered or not
HoveredURLs_All(areas) == [i \in 1..Len(areas) |-> areas[i].URL]

\* the URLs of the hovered areas, in the order of the loop over w.LinkAreas
HoveredURLs(areas) ==
    LET hovered == SelectSeq(areas, LAMBDA a : a.Hover)
    IN  [i \in 1..Len(hovered) |-> hovered[i].URL]

\* a scroll offset that eases toward the range instead of being cut to it
ClampScroll_Ease(scrolled, totalHeight) ==
    LET atLeastZero == IF scrolled < 0 THEN 0 ELSE scrolled
        rawMax == totalHeight - widgetHeight
        maxScroll == IF rawMax < 0 THEN 0 ELSE rawMax
    IN  IF atLeastZero > maxScroll THEN (atLeastZero + maxScroll) \div 2 ELSE atLeastZero

\* Update's two clamps of w.ScrollY
ClampScroll(scrolled, totalHeight) ==
    LET atLeastZero == IF scrolled < 0 THEN 0 ELSE scrolled
        rawMax == totalHeight - widgetHeight
        maxScroll == IF rawMax < 0 THEN 0 ELSE rawMax
    IN  IF atLeastZero > maxScroll THEN maxScroll ELSE atLeastZero

\* the area as Update hit-tests it
ScreenBounds(area, scrollY) == [area.Bounds EXCEPT !.Y = @ - scrollY]

\* Update.  faults: the host's callback panics when it is called.  Update has no
\* recover, so a panic leaves its loop at the area being handled and reaches
\* the host; the areas after it keep their Hover flags.
Update ==
    \E wheel \in Wheels, mousePos \in MousePositions, pressed \in BOOLEAN,
       faults \in BOOLEAN :
        LET newScrollY == ClampScroll(ScrollY - wheel * WheelStep, TotalHeight)
            hover(i) == CheckCollisionPointRec(mousePos,
                                               ScreenBounds(LinkAreas[i], newScrollY))
            calling(i) == hover(i) /\ pressed
            panics == {i \in 1..Len(LinkAreas) : calling(i) /\ OnLinkClick /\ faults}
            last == IF panics = {} THEN Len(LinkAreas)
                    ELSE CHOOSE i \in panics : \A j \in panics : i <= j
            newAreas == [i \in 1..Len(LinkAreas) |->
                            IF i <= last THEN [LinkAreas[i] EXCEPT !.Hover = hover(i)]
                            ELSE LinkAreas[i]]
            calls == IF pressed THEN HoveredURLs(SubSeq(newAreas, 1, last)) ELSE <<>>
            quiet == wheel = 0 /\ ~pressed
        IN  /\ newScrollY <= ScrollCap
            /\ faults => (OnLinkClick /\ pressed)
            /\ ScrollY' = newScrollY
            /\ LinkAreas' = newAreas
            /\ cursor' = IF \E i \in 1..last : hover(i)
                         THEN "PointingHand" ELSE "Default"
            /\ clicked' = IF OnLinkClick THEN calls ELSE <<>>
            /\ printed' = IF OnLinkClick THEN <<>> ELSE calls
            /\ panicked' = (panics # {})
            /\ lastCall' = "Update"
            /\ event' = [wheel |-> wheel, mousePos |-> mousePos, pressed |-> pressed]
            /\ idle' = IF ~quiet THEN 0
                       ELSE IF idle >= 1 /\ lastCall = "Update" /\ event.mousePos = mousePos
                         THEN 2 ELSE 1
            /\ UNCHANGED <<document, TotalHeight, WidgetHeight, OnLinkClick, drawn>>
            /\ UNCHANGED nonWidgetVars

\* what the handler of a root child returns when it renders at ctx
RenderNode(child, ctx) ==
    [NextY |-> ctx.Y + child.Height,
     LinkAreas |-> [i \in 1..Len(child.Links) |->
                       [Bounds |-> [child.Links[i].Bounds EXCEPT !.X = @ + ctx.X,
                                                                 !.Y = @ + ctx.Y],
                        URL |-> child.Links[i].URL,
                        Hover |-> FALSE]]]

\* the loop of RenderDocument from child k on; acc carries result and ctx.Y
RECURSIVE RenderChildren(_, _, _, _)
RenderChildren(children, k, ctx, result) ==
    IF k > Len(children)
    THEN [result EXCEPT !.Height = result.NextY - ctx.Y]
    ELSE LET childResult == RenderNode(children[k], ctx)
         IN  RenderChildren(children, k + 1,
                            [ctx EXCEPT !.Y = childResult.NextY],
                            [result EXCEPT !.NextY = childResult.NextY,
                                           !.LinkAreas = @ \o childResult.LinkAreas])

RenderDocument(doc, ctx) ==
    RenderChildren(doc, 1, ctx, [NextY |-> ctx.Y, LinkAreas |-> <<>>, Height |-> 0])

\* Render storing the rectangles as they were drawn
ToDocumentSpace_Screen(linkArea, scrollY) == linkArea

\* screenArea.Bounds.Y += w.ScrollY
ToDocumentSpace(linkArea, scrollY) == [linkArea EXCEPT !.Bounds.Y = @ + scrollY]

\* what Render stores in w.LinkAreas when it runs at origin with w.ScrollY = scrollY
StoredLinkAreas(doc, origin, width, scrollY) ==
    LET ctx == [X |-> origin.X + BodyMargin + BodyPadding,
                Y |-> origin.Y + BodyMargin + BodyPadding - scrollY,
                Width |-> width - 2 * (BodyMargin + BodyPadding)]
        result == RenderDocument(doc, ctx)
    IN  [i \in 1..Len(result.LinkAreas) |-> ToDocumentSpace(result.LinkAreas[i], scrollY)]

Render ==
    \E origin \in RenderOrigins, width \in RenderWidths, height \in RenderHeights :
        LET x == origin.X
            y == origin.Y
            contentX == x + BodyMargin + BodyPadding
            contentY == y + BodyMargin + BodyPadding - ScrollY
            contentWidth == width - 2 * (BodyMargin + BodyPadding)
            ctx == [X |-> contentX, Y |-> contentY, Width |-> contentWidth]
            result == RenderDocument(document, ctx)
        IN  /\ WidgetHeight' = height
            /\ TotalHeight' = result.NextY + ScrollY - contentY
                              + 2 * (BodyMargin + BodyPadding)
            /\ LinkAreas' = StoredLinkAreas(document, origin, width, ScrollY)
            /\ lastCall' = "Render"
            /\ drawn' = [origin |-> origin]
            /\ event' = NoEvent
            /\ panicked' = FALSE
            /\ idle' = 0
            /\ UNCHANGED <<document, ScrollY, OnLinkClick, cursor, clicked, printed>>
            /\ UNCHANGED nonWidgetVars

\* the host writes the public field ScrollY between two calls
HostSetScrollY ==
    \E y \in HostScrolls :
        /\ ScrollY' = y
        /\ lastCall' = "Host"
        /\ event' = NoEvent
        /\ panicked' = FALSE
        /\ idle' = 0
        /\ UNCHANGED <<document, TotalHeight, WidgetHeight, LinkAreas, OnLinkClick,
                       cursor, clicked, printed, drawn>>
        /\ UNCHANGED nonWidgetVars

(***************************************************************************)
(* The font manager: GetFont, GetMonospaceFont, ReleaseFont and           *)
(* ReleaseMonospaceFont, called by threads.  Every access to the maps is  *)
(* made under fm.mutex, so a section between a lock and its unlock is one  *)
(* step; GetFont is up to two sections: the read under RLock, then either  *)
(* the increment or the insertion under Lock.  A key is the pair the code *)
(* formats as "name:size"; GetMonospaceFont uses the name "monospace".    *)
(***************************************************************************)
Str_arial == "arial"
Str_comic == "comic"
Str_monospace == "monospace"
Str_arialBold == "arial-bold"
Str_arialItalic == "arial-italic"

Threads == {1, 2}

\* the fonts asked for: arial has a path on every platform, comic has none
FontNames == {Str_arial, Str_comic, Str_monospace}
FontSizes == {16}
FontKeys == FontNames \X FontSizes

\* fm.fontPaths[fontName] exists; GetMonospaceFont finds a path in fontOrder
HasPath(name) == name \in {Str_arial, Str_arialBold, Str_arialItalic, Str_monospace}

\* the zero value of rl.Font
NoFont == [BaseSize |-> 0, TextureID |-> 0]

\* rl.GetFontDefault()
DefaultFont == [BaseSize |-> 10, TextureID |-> 1]

\* how many fonts the platform loads, and how many handles are held at once
MaxLoads == 2
MaxHeld == 2

IdleCall == [op |-> "idle", key |-> <<>>, font |-> NoFont]

FontInit ==
    /\ fonts = <<>>
    /\ refCounts = <<>>
    /\ fontStatus = <<>>
    /\ live = {}
    /\ loads = 0
    /\ unloads = <<>>
    /\ call = [t \in Threads |-> IdleCall]
    /\ held = [t \in Threads |-> [key \in FontKeys |-> <<>>]]

\* m[k] = v on a map
MapSet(m, k, v) == [x \in (DOMAIN m) \cup {k} |-> IF x = k THEN v ELSE m[x]]

\* delete(m, k)
MapDelete(m, k) == [x \in (DOMAIN m) \ {k} |-> m[x]]

\* fm.refCounts[key]++ (a missing key reads as 0)
Incr(rc, key) == MapSet(rc, key, (IF key \in DOMAIN rc THEN rc[key] ELSE 0) + 1)

\* the font rl.LoadFontEx returns for the n-th load
LoadedFont(size, n) == [BaseSize |-> size, TextureID |-> DefaultFont.TextureID + n]

\* GetFont without its second look at the map under the exclusive lock
Recheck_Never(key, fs) == FALSE

\* the second look at fm.fonts, under the exclusive lock
Recheck(key, fs) == key \in DOMAIN fs

\* an entry dropped one release early
DropsToZero_EarlyByOne(count) == count <= 1

\* ReleaseFont's test after count--
DropsToZero(count) == count <= 0

\* every font of a dropped entry unloaded
ShouldUnload_Always(font) == TRUE

\* ReleaseFont's test before rl.UnloadFont
ShouldUnload(font) == font.BaseSize > 0 /\ font.TextureID # DefaultFont.TextureID

\* the handles the threads hold, and the calls under way
Handles == {h \in Threads \X FontKeys \X (1..MaxHeld) : h[3] <= Len(held[h[1]][h[2]])}
Outstanding == Cardinality(Handles) + Cardinality({t \in Threads : call[t].op # "idle"})

\* GetFont returns font to thread t, which keeps it until it releases the key.
\* path: "hit" when the first look found the key, otherwise "found" when the
\* key was in fm.fonts as the exclusive section began and "loaded" when not
Returned(t, key, font, path) ==
    /\ held' = [held EXCEPT ![t][key] = Append(@, [font |-> font, path |-> path])]
    /\ call' = [call EXCEPT ![t] = IdleCall]

\* GetFont / GetMonospaceFont, first section: the look at fm.fonts under RLock
GetFontRead(t) ==
    \E key \in FontKeys :
        /\ call[t].op = "idle"
        /\ Outstanding < MaxHeld
        /\ call' = [call EXCEPT ![t] =
                        IF key \in DOMAIN fonts
                        THEN [op |-> "bump", key |-> key, font |-> fonts[key]]
                        ELSE [op |-> "insert", key |-> key, font |-> NoFont]]
        /\ UNCHANGED <<fonts, refCounts, fontStatus, live, loads, unloads, held>>
        /\ UNCHANGED nonFontVars

\* GetFont / GetMonospaceFont after a hit: Lock, refCounts[key]++, Unlock, return
GetFontBump(t) ==
    /\ call[t].op = "bump"
    /\ refCounts' = Incr(refCounts, call[t].key)
    /\ Returned(t, call[t].key, call[t].font, "hit")
    /\ UNCHANGED <<fonts, fontStatus, live, loads, unloads>>
    /\ UNCHANGED nonFontVars

\* GetFont / GetMonospaceFont after a miss: Lock, look again, load and insert
GetFontInsert(t) ==
    /\ call[t].op = "insert"
    /\ LET key == call[t].key
           name == key[1]
           size == key[2]
           path == IF key \in DOMAIN fonts THEN "found" ELSE "loaded"
       IN  IF Recheck(key, fonts)
             THEN /\ refCounts' = Incr(refCounts, key)
                  /\ Returned(t, key, fonts[key], path)
                  /\ UNCHANGED <<fonts, fontStatus, live, loads>>
           ELSE IF ~HasPath(name)
             THEN /\ fonts' = MapSet(fonts, key, DefaultFont)
                  /\ refCounts' = MapSet(refCounts, key, 1)
                  /\ fontStatus' = MapSet(fontStatus, key, FALSE)
                  /\ Returned(t, key, DefaultFont, path)
                  /\ UNCHANGED <<live, loads>>
           ELSE \E ok \in BOOLEAN :
                  LET font == IF ok THEN LoadedFont(size, loads + 1) ELSE DefaultFont
                  IN  /\ ok => loads < MaxLoads
                      /\ loads' = IF ok THEN loads + 1 ELSE loads
                      /\ live' = IF ok THEN live \cup {font.TextureID} ELSE live
                      /\ fonts' = MapSet(fonts, key, font)
                      /\ refCounts' = MapSet(refCounts, key, 1)
                      /\ fontStatus' = MapSet(fontStatus, key, ok)
                      /\ Returned(t, key, font, path)
    /\ UNCHANGED unloads
    /\ UNCHANGED nonFontVars

\* the sequence hs without its i-th element
RemoveAt(hs, i) == SubSeq(hs, 1, i - 1) \o SubSeq(hs, i + 1, Len(hs))

Holds(t, key) == held[t][key] # <<>>

\* ReleaseFont / ReleaseMonospaceFont, by a thread that holds a handle of the
\* key, or for a key the manager has no count of
ReleaseFont(t) ==
    \E key \in FontKeys :
        /\ call[t].op = "idle"
        /\ Holds(t, key) \/ key \notin DOMAIN refCounts
        /\ \/ /\ Holds(t, key)
              /\ \E i \in 1..Len(held[t][key]) :
                     held' = [held EXCEPT ![t][key] = RemoveAt(@, i)]
           \/ /\ ~Holds(t, key)
              /\ UNCHANGED held
        /\ IF key \in DOMAIN refCounts
             THEN LET count == refCounts[key] - 1
                      unload == key \in DOMAIN fonts /\ ShouldUnload(fonts[key])
                  IN  IF DropsToZero(count)
                        THEN /\ unloads' = IF unload THEN Append(unloads, fonts[key])
                                           ELSE unloads
                             /\ live' = IF unload THEN live \ {fonts[key].TextureID}
                                        ELSE live
                             /\ fonts' = MapDelete(fonts, key)
                             /\ refCounts' = MapDelete(refCounts, key)
                             /\ fontStatus' = MapDelete(fontStatus, key)
                        ELSE /\ refCounts' = MapSet(refCounts, key, count)
                             /\ UNCHANGED <<fonts, fontStatus, live, unloads>>
             ELSE UNCHANGED <<fonts, refCounts, fontStatus, live, unloads>>
        /\ UNCHANGED <<loads, call>>
        /\ UNCHANGED nonFontVars

(***************************************************************************)
(* The text measurement cache.  A key is the triple the code formats as   *)
(* "id:size:text" and a font key the pair it formats as "id:size"; the    *)
(* sizes the widget passes are whole numbers, which "%.1f" keeps apart.   *)
(* A font handle carries its texture id and the face it was loaded from.  *)
(***************************************************************************)
\* NewTextMeasureCache(maxEntries), with a small capacity
maxEntries == 3

\* how many lookups a history holds
MaxLookups == 5

\* the handles measured with: the same face loaded twice, and another face
TextFonts == {[ID |-> 2, Face |-> Str_arial],
              [ID |-> 3, Face |-> Str_arial],
              [ID |-> 4, Face |-> Str_monospace]}
TextSizes == {16}
Texts == {<<"a">>, <<"b", "b">>}

CacheInit ==
    /\ cache = <<>>
    /\ accessOrder = <<>>
    /\ fontTextures = <<>>
    /\ lookups = <<>>

\* a character outside ASCII takes two bytes of a string, written "C3" and
\* "A9" for the two bytes of U+00E9
IsLeadByte(b) == b = "C3"
IsContinuationByte(b) == b = "A9"

\* utf8.RuneCountInString: a continuation byte after its lead byte adds nothing
RuneCount(s) ==
    Cardinality({k \in 1..Len(s) :
                    ~(k > 1 /\ IsContinuationByte(s[k]) /\ IsLeadByte(s[k - 1]))})

\* rl.MeasureTextEx(font, text, fontSize, 1): one advance for each code point and
\* the spacing between them; the monospace face is wider
MeasureTextEx(font, text, fontSize) ==
    [X |-> IF text = <<>> THEN 0
           ELSE RuneCount(text)
                    * (IF font.Face = Str_monospace THEN fontSize ELSE fontSize \div 2)
                + (RuneCount(text) - 1),
     Y |-> fontSize]

CacheKey(font, text, fontSize) == <<font.ID, fontSize, text>>
FontKey(font, fontSize) == <<font.ID, fontSize>>

\* a hit that leaves the order as it was
updateAccessOrder_NoMove(order, key) == order

\* updateAccessOrder: the key taken out of the order and put at its end
updateAccessOrder(order, key) ==
    SelectSeq(order, LAMBDA k : k # key) \o <<key>>

\* invalidateFontCache, the cache part: the keys of oldTextureID deleted
invalidateFontCache(c, oldTextureID) ==
    [k \in {x \in DOMAIN c : x[1] # oldTextureID} |-> c[k]]

\* invalidateFontCache, the order part
invalidateAccessOrder(order, oldTextureID) ==
    SelectSeq(order, LAMBDA k : k[1] # oldTextureID)

\* GetTextSize on the cache tmc: the cache it leaves
Lookup(tmc, font, text, fontSize) ==
    LET key == CacheKey(font, text, fontSize)
        fontKey == FontKey(font, fontSize)
        stale == /\ fontKey \in DOMAIN tmc.fontTextures
                 /\ tmc.fontTextures[fontKey] # font.ID
        c1 == IF stale THEN invalidateFontCache(tmc.cache, tmc.fontTextures[fontKey])
              ELSE tmc.cache
        a1 == IF stale
              THEN invalidateAccessOrder(tmc.accessOrder, tmc.fontTextures[fontKey])
              ELSE tmc.accessOrder
        c2 == MapSet(c1, key, MeasureTextEx(font, text, fontSize))
        a2 == Append(a1, key)
    IN  IF key \in DOMAIN c1
          THEN [fontTextures |-> MapSet(tmc.fontTextures, fontKey, font.ID),
                cache |-> c1,
                accessOrder |-> updateAccessOrder(a1, key)]
        ELSE IF Cardinality(DOMAIN c2) > maxEntries
          THEN [fontTextures |-> MapSet(tmc.fontTextures, fontKey, font.ID),
                cache |-> MapDelete(c2, a2[1]),
                accessOrder |-> Tail(a2)]
        ELSE [fontTextures |-> MapSet(tmc.fontTextures, fontKey, font.ID),
              cache |-> c2,
              accessOrder |-> a2]

\* the cache written back to tmc
StoreCache(tmc) ==
    /\ fontTextures' = tmc.fontTextures
    /\ cache' = tmc.cache
    /\ accessOrder' = tmc.accessOrder

GetTextSize ==
    \E font \in TextFonts, text \in Texts, fontSize \in TextSizes :
        /\ Len(lookups) < MaxLookups
        /\ lookups' = Append(lookups, [font |-> font, text |-> text, fontSize |-> fontSize])
        /\ StoreCache(Lookup([cache |-> cache, accessOrder |-> accessOrder,
                              fontTextures |-> fontTextures], font, text, fontSize))
        /\ UNCHANGED nonCacheVars

CacheStart == html = <<>> /\ ParserInit /\ WidgetInit /\ document = <<>>
              /\ OnLinkClick = FALSE /\ FontInit /\ CacheInit /\ WrapIdle /\ LayoutIdle /\ LifeIdle /\ PastIdle /\ TableIdle /\ HostIdle

TextCacheNext == GetTextSize

TextCacheSpec == CacheStart /\ [][TextCacheNext]_vars

\* The font manager used by one caller at a time
FontStart == html = <<>> /\ ParserInit /\ WidgetInit /\ document = <<>>
             /\ OnLinkClick = FALSE /\ FontInit /\ CacheInit /\ WrapIdle /\ LayoutIdle /\ LifeIdle /\ PastIdle /\ TableIdle /\ HostIdle

FontSeqNext ==
    \/ GetFontRead(1)
    \/ GetFontBump(1)
    \/ GetFontInsert(1)
    \/ ReleaseFont(1)

FontSeqSpec == FontStart /\ [][FontSeqNext]_vars

\* The font manager used by the threads at once
FontNext ==
    \/ \E t \in Threads : GetFontRead(t)
    \/ \E t \in Threads : GetFontBump(t)
    \/ \E t \in Threads : GetFontInsert(t)
    \/ \E t \in Threads : ReleaseFont(t)

FontSpec == FontStart /\ [][FontNext]_vars

(***************************************************************************)
(* Paragraph layout: splitting a text into words and wrapping them.  A    *)
(* Go string is a sequence of bytes.                                       *)
(***************************************************************************)
\* utf8.ValidString
ValidString(s) ==
    \A k \in 1..Len(s) :
        /\ IsLeadByte(s[k]) => (k < Len(s) /\ IsContinuationByte(s[k + 1]))
        /\ IsContinuationByte(s[k]) => (k > 1 /\ IsLeadByte(s[k - 1]))

\* the members of a set of integers, in increasing order
Ascending(S) ==
    [k \in 1..Cardinality(S) |-> CHOOSE i \in S : Cardinality({j \in S : j < i}) = k - 1]

\* strings.Fields
Fields(text) ==
    LET starts == {i \in 1..Len(text) :
                      ~IsSpace(text[i]) /\ (i = 1 \/ IsSpace(text[i - 1]))}
        ends == {i \in 1..Len(text) :
                    ~IsSpace(text[i]) /\ (i = Len(text) \/ IsSpace(text[i + 1]))}
        from == Ascending(starts)
        to == Ascending(ends)
    IN  [k \in 1..Len(from) |-> SubSeq(text, from[k], to[k])]

\* strings.Contains
Contains(s, substr) ==
    \E i \in 1..(Len(s) - Len(substr) + 1) : SubSeq(s, i, i + Len(substr) - 1) = substr

\* strings.Split(s, sep) for a separator of one byte
Split(s, sep) ==
    LET at == Ascending({i \in 1..Len(s) : s[i] = sep[1]})
        n == Len(at)
    IN  [k \in 1..(n + 1) |->
            SubSeq(s, (IF k = 1 THEN 0 ELSE at[k - 1]) + 1,
                      (IF k = n + 1 THEN Len(s) + 1 ELSE at[k]) - 1)]

\* the token lengths intelligentWordSplit and splitAtBreakPoints compare with
MaxWordLen == 30
MinURLLen == 40
ChunkLen == 25

breakPoints == << <<"/">>, <<"?">>, <<"&">>, <<"=">>, <<".">>, <<"-">> >>

\* a fragment after the first without the break point it was split at
Rejoin_Dropped(breakPoint, part) == part

\* newSegments = append(newSegments, breakPoint+part)
Rejoin(breakPoint, part) == breakPoint \o part

\* splitAtBreakPoints, from break point k on
RECURSIVE splitAtBreakPointsFrom(_, _)
splitAtBreakPointsFrom(segs, k) ==
    IF k > Len(breakPoints) THEN segs
    ELSE LET breakPoint == breakPoints[k]
             split(segment) ==
                 IF Len(segment) > MaxWordLen /\ Contains(segment, breakPoint)
                 THEN LET parts == Split(segment, breakPoint)
                      IN  [i \in 1..Len(parts) |->
                              IF i > 1 THEN Rejoin(breakPoint, parts[i]) ELSE parts[i]]
                 ELSE <<segment>>
         IN  splitAtBreakPointsFrom(Cat([i \in 1..Len(segs) |-> split(segs[i])]), k + 1)

splitAtBreakPoints(text) == splitAtBreakPointsFrom(<<text>>, 1)

\* the test of intelligentWordSplit for a URL, without its length
URLish(word) ==
    \/ Contains(word, <<":", "/", "/">>)
    \/ Contains(word, <<".", "c", "o", "m">>)
    \/ Contains(word, <<".", "o", "r", "g">>)
    \/ Contains(word, <<"/">>)

\* word[i:end] for i = 0, 25, 50, ...
Chunks(word) ==
    [k \in 1..((Len(word) + ChunkLen - 1) \div ChunkLen) |->
        SubSeq(word, ChunkLen * (k - 1) + 1,
               IF ChunkLen * k > Len(word) THEN Len(word) ELSE ChunkLen * k)]

\* the body of the loop of intelligentWordSplit: what one word adds to the result
wordPieces(word) ==
    IF Len(word) > MinURLLen /\ URLish(word) THEN splitAtBreakPoints(word)
    ELSE IF Len(word) > MaxWordLen THEN Chunks(word)
    ELSE <<word>>

\* the result of intelligentWordSplit token by token
piecesByToken(text) ==
    LET tokens == Fields(text)
    IN  [k \in 1..Len(tokens) |-> wordPieces(tokens[k])]

intelligentWordSplit(text) == Cat(piecesByToken(text))

lineHeight == 20
LineGap == 5

\* w.Fonts.Regular
Regular == [ID |-> 2, Face |-> Str_arial, BaseSize |-> 16]

\* the fonts loadFonts puts in w.Fonts, Regular apart
Bold == [ID |-> 3, Face |-> Str_arial, BaseSize |-> 16]
Italic == [ID |-> 5, Face |-> Str_arial, BaseSize |-> 16]

\* w.measureTextWidth
measureTextWidth(font, text, fontSize) == MeasureTextEx(font, text, fontSize).X

\* the width a line takes as renderInlineSegments draws it
RECURSIVE LineWidth(_)
LineWidth(segs) ==
    IF segs = <<>> THEN 0
    ELSE measureTextWidth(Head(segs).font, Head(segs).text, Head(segs).font.BaseSize)
         + LineWidth(Tail(segs))

\* renderInlineSegments: the link areas of a line drawn from x at height y
renderInlineSegments(segs, x, y) ==
    LET at(j) == x + LineWidth(SubSeq(segs, 1, j - 1))
        linked == Ascending({j \in 1..Len(segs) : segs[j].href # <<>>})
    IN  [i \in 1..Len(linked) |->
            LET segment == segs[linked[i]]
                fontSize == IF segment.font.BaseSize = 0 THEN 16 ELSE segment.font.BaseSize
            IN  [Bounds |-> Rect(at(linked[i]), y,
                                 measureTextWidth(segment.font, segment.text,
                                                  segment.font.BaseSize),
                                 fontSize),
                 URL |-> segment.href,
                 Hover |-> FALSE]]

\* the fit test counting the space that goes before the word
Overflows_WithSpace(currentLineWidth, wordWidth, spaceWidth, availableWidth) ==
    currentLineWidth + spaceWidth + wordWidth > availableWidth

\* currentLineWidth+wordWidth > availableWidth
Overflows(currentLineWidth, wordWidth, spaceWidth, availableWidth) ==
    currentLineWidth + wordWidth > availableWidth

\* the word segments of renderSegmentsWithWrapping, in the order its loops visit
\* them: the word, with the font, the color and the href of its segment
wordSegments(segs) ==
    Cat([i \in 1..Len(segs) |->
            LET words == intelligentWordSplit(segs[i].text)
            IN  [k \in 1..Len(words) |-> [segs[i] EXCEPT !.text = words[k]]]])

\* the loops of renderSegmentsWithWrapping from word k on; st carries currentY,
\* currentLineSegments, currentLineWidth, the link areas and the lines drawn
RECURSIVE wrapFrom(_, _, _, _)
wrapFrom(ws, k, ctx, st) ==
    IF k > Len(ws) THEN st
    ELSE LET wordSegment == ws[k]
             font == wordSegment.font
             wordWidth == measureTextWidth(font, wordSegment.text, font.BaseSize)
             spaceWidth == measureTextWidth(font, <<" ">>, font.BaseSize)
             availableWidth == ctx.Width - (BodyMargin + BodyPadding)
         IN  IF Overflows(st.Width, wordWidth, spaceWidth, availableWidth)
                /\ Len(st.Line) > 0
             THEN wrapFrom(ws, k + 1, ctx,
                           [Y |-> st.Y + lineHeight,
                            Line |-> <<wordSegment>>,
                            Width |-> wordWidth,
                            LinkAreas |-> st.LinkAreas
                                          \o renderInlineSegments(st.Line, ctx.X, st.Y),
                            Lines |-> Append(st.Lines, st.Line)])
             ELSE wrapFrom(ws, k + 1, ctx,
                           IF Len(st.Line) > 0
                           THEN [st EXCEPT
                                    !.Line = @ \o <<[wordSegment EXCEPT
                                                        !.text = <<" ">>,
                                                        !.href = <<>>],
                                                    wordSegment>>,
                                    !.Width = @ + spaceWidth + wordWidth]
                           ELSE [st EXCEPT !.Line = <<wordSegment>>,
                                           !.Width = @ + wordWidth])

\* renderSegmentsWithWrapping returning without drawing the line it holds
renderSegmentsWithWrapping_NoLastLine(segs, ctx) ==
    LET st == wrapFrom(wordSegments(segs), 1, ctx,
                       [Y |-> ctx.Y, Line |-> <<>>, Width |-> 0,
                        LinkAreas |-> <<>>, Lines |-> <<>>])
    IN  [NextY |-> st.Y + LineGap,
         Height |-> st.Y + LineGap - ctx.Y,
         LinkAreas |-> st.LinkAreas,
         Lines |-> st.Lines]

\* renderSegmentsWithWrapping; Lines are the lines it drew, top to bottom
renderSegmentsWithWrapping(segs, ctx) ==
    LET st == wrapFrom(wordSegments(segs), 1, ctx,
                       [Y |-> ctx.Y, Line |-> <<>>, Width |-> 0,
                        LinkAreas |-> <<>>, Lines |-> <<>>])
        last == Len(st.Line) > 0
        currentY == IF last THEN st.Y + lineHeight ELSE st.Y
    IN  [NextY |-> currentY + LineGap,
         Height |-> currentY + LineGap - ctx.Y,
         LinkAreas |-> IF last
                       THEN st.LinkAreas \o renderInlineSegments(st.Line, ctx.X, st.Y)
                       ELSE st.LinkAreas,
         Lines |-> IF last THEN Append(st.Lines, st.Line) ELSE st.Lines]

\* the texts laid out: tokens at and around the lengths the splitter tests,
\* with and without the marks of a URL, in ASCII and not, alone and in company
Word3 == <<"a", "a", "a">>
TokenPlain(n) == Repeat(<<"a">>, n)
TokenAccented(n) == Repeat(<<"C3", "A9">>, n)
TokenURL ==
    <<"h", "t", "t", "p", ":", "/", "/">> \o Repeat(<<"a">>, 32)
    \o <<".", "c", "o", "m", "/">> \o Repeat(<<"b">>, 15)
TokenQuery ==
    Repeat(<<"a">>, 20) \o <<"?">> \o Repeat(<<"b">>, 20) \o <<"&", "c", "=", "d", "/">>
TokenPath == <<"/">> \o Repeat(<<"a">>, 45)
TokenShortPath == <<"a", "/">> \o Repeat(<<"a">>, 33)

WrapTexts ==
    {<<>>, <<" ">>, Word3,
     Word3 \o <<" ">> \o Word3,
     <<" ", " ">> \o Word3 \o <<"\t", "\n">> \o Word3 \o <<" ">> \o Word3 \o <<" ">>,
     TokenPlain(30), TokenPlain(31), TokenPlain(40), TokenPlain(41), TokenPlain(51),
     TokenAccented(16), TokenAccented(31),
     TokenURL, TokenQuery, TokenPath, TokenShortPath,
     Word3 \o <<" ">> \o TokenPlain(31) \o <<" ">> \o Word3}

WrapInputs ==
    {<<[text |-> t, font |-> Regular, color |-> "Black", href |-> <<>>]>> :
        t \in WrapTexts}
    \cup {<<[text |-> Word3, font |-> Regular, color |-> "Black", href |-> <<>>],
            [text |-> t, font |-> Regular, color |-> "Blue", href |-> Str_urlA]>> :
            t \in {Word3, Word3 \o <<" ">> \o Word3, TokenPlain(31)}}
    \cup {<<[text |-> Word3, font |-> Bold, color |-> "DarkBlue", href |-> <<>>],
            [text |-> Word3 \o <<" ">> \o Word3, font |-> Regular, color |-> "Blue",
             href |-> Str_urlB],
            [text |-> TokenPlain(31), font |-> Italic, color |-> "DarkGreen",
             href |-> <<>>]>>}

WrapWidths == {80, 105, 860}

WrapInit ==
    /\ segments \in WrapInputs
    /\ wrapCtx \in {[X |-> BodyMargin + BodyPadding, Y |-> BodyMargin + BodyPadding,
                     Width |-> w] : w \in WrapWidths}
    /\ pieces = NotSplit
    /\ wrapResult = NotWrapped

\* intelligentWordSplit called on the text of each segment
SplitWords ==
    /\ pieces = NotSplit
    /\ pieces' = [Called |-> TRUE,
                  ByToken |-> [i \in 1..Len(segments) |->
                                 piecesByToken(segments[i].text)]]
    /\ UNCHANGED <<segments, wrapCtx, wrapResult>>
    /\ UNCHANGED nonWrapVars

\* renderSegmentsWithWrapping called on the segments
WrapSegments ==
    /\ wrapResult = NotWrapped
    /\ wrapResult' = renderSegmentsWithWrapping(segments, wrapCtx)
    /\ UNCHANGED <<segments, wrapCtx, pieces>>
    /\ UNCHANGED nonWrapVars

WrapStart == html = <<>> /\ ParserInit /\ WidgetInit /\ document = <<>>
             /\ OnLinkClick = FALSE /\ FontInit /\ CacheInit /\ WrapInit /\ LayoutIdle /\ LifeIdle /\ PastIdle /\ TableIdle /\ HostIdle

WrapNext == SplitWords \/ WrapSegments

WrapSpec == WrapStart /\ [][WrapNext]_vars

\* The widget on its own, as a host drives it once per frame, in any order
WidgetStart == html = <<>> /\ ParserInit /\ WidgetInit /\ FontInit /\ CacheInit
               /\ WrapIdle /\ LayoutIdle /\ LifeIdle /\ PastIdle /\ TableIdle /\ HostIdle

WidgetNext == Update \/ Render \/ HostSetScrollY

WidgetSpec == WidgetStart /\ [][WidgetNext]_vars

\* The parser on its own: the widget stays as constructed
Init ==
    /\ ParserInit
    /\ WidgetInit /\ document = <<>> /\ OnLinkClick = FALSE
    /\ FontInit
    /\ CacheInit
    /\ WrapIdle /\ LayoutIdle /\ LifeIdle /\ PastIdle /\ TableIdle /\ HostIdle

Next == ParserNext

Spec == Init /\ [][Next]_vars

\* Parse never blocks: its loop runs until the input is consumed
SpecLive == Init /\ [][Next]_vars /\ WF_vars(Next)

(***************************************************************************)
(* The parser on inputs that open with invalid tags: a run of one kind of *)
(* invalid tag, then a paragraph holding one letter.                      *)
(***************************************************************************)
\* the longest run of invalid tags, past maxErrors
MaxInvalid == 102

InvalidCounts == {1, 2, maxErrors, MaxInvalid}

\* a name one longer than the parser accepts
LongName == Repeat(<<"n">>, MaxTagLen + 1)

\* a name of eleven code points that takes twenty-two bytes
AccentedName == Repeat(<<Str_eAcute>>, 11)

LongOpenTag == OpenTag(LongName)
LongSelfClosingTag == SelfClosingTag(LongName)
LongTagWithAttrs ==
    <<"<">> \o LongName \o <<" ", "k", "=", "\"", "v", "\"", " ", "j", "=", "w", ">">>
AccentedTag == OpenTag(AccentedName)
EmptyTag == <<"<", ">">>

LongTags == {LongOpenTag, LongSelfClosingTag, LongTagWithAttrs}
InvalidTags == LongTags \cup {AccentedTag, EmptyTag}

\* the valid tag and its text that follow the invalid tags
Paragraph == OpenTag(Str_p) \o <<"y">> \o CloseTag(Str_p)

AfterInvalid(bad, n) == Repeat(bad, n) \o Paragraph

\* the inputs, and one that opens with a comment
RecoveryInputs ==
    {AfterInvalid(bad, n) : bad \in InvalidTags, n \in InvalidCounts}
        \cup {CommentOf(CommentBody) \o AfterInvalid(LongOpenTag, 1)}

RecoveryStart ==
    /\ html \in RecoveryInputs
    /\ ParserFresh
    /\ WidgetInit /\ document = <<>> /\ OnLinkClick = FALSE
    /\ FontInit
    /\ CacheInit
    /\ WrapIdle /\ LayoutIdle /\ LifeIdle /\ PastIdle /\ TableIdle /\ HostIdle

RecoveryNext ==
    \/ ParseBegin
    \/ HandleTextState
    \/ HandleTagOpenState
    \/ HandleTagNameState
    \/ HandleAttributesState
    \/ HandleAttributeNameState
    \/ HandleAttributeValueState
    \/ HandleAttributeQuotedState
    \/ HandleTagCloseState
    \/ HandleEndTagState
    \/ HandleCommentState
    \/ ParseEnd

RecoverySpec == RecoveryStart /\ [][RecoveryNext]_vars

(***************************************************************************)
(* One parser used for several calls of Parse: the fields of the parser   *)
(* stay as a call left them until the next call resets them.              *)
(***************************************************************************)
\* how many times Parse is called on the parser
MaxParses == 3

\* inputs that end in text, inside a tag name, among the attributes, inside
\* an attribute name, an unquoted and a quoted value, an end tag, a comment
\* and a self-closing tag, and inputs that are complete
ShortInputs ==
    {<<>>,
     <<"x">>,
     <<"<", "p">>,
     <<"<", "a", " ">>,
     <<"<", "a", " ", "h", "r", "e", "f">>,
     <<"<", "a", " ", "h", "r", "e", "f", "=", "u">>,
     <<"<", "a", " ", "h", "r", "e", "f", "=", "\"", "u">>,
     <<"<", "p", ">", "x", "<", "/", "p">>,
     <<"<", "p", ">", "<", "!", "-", "-", "#">>,
     <<"<", "b", "r", "/">>,
     <<"<", "b", "r", "/", ">", "x">>,
     Paragraph \o <<"x">>,
     LongOpenTag \o Paragraph}

\* an input that takes errorCount past maxErrors
ExhaustingInput == AfterInvalid(LongOpenTag, MaxInvalid)

ReparseInputs == ShortInputs \cup {ExhaustingInput}

\* the caller calls Parse again on the parser, with any input the first
\* time and with the input of the first call after that
ParseAgain ==
    /\ pc = "done"
    /\ Len(past) + 1 < MaxParses
    /\ past' = Append(past, [html |-> html, nodes |-> nodes])
    /\ html' \in (IF past = <<>> THEN ReparseInputs ELSE {past[1].html})
    /\ pc' = "ready"
    /\ UNCHANGED <<input, position, state, nodeStack, textBuffer, tagBuffer, attrName,
                   attrValue, currentAttrs, quoteChar, currentDepth, errorCount, nodes>>
    /\ UNCHANGED <<widgetVars, fontVars, cacheVars, wrapVars, layoutVars, lifeVars,
                   hostVars, tableVars>>

ReparseStart ==
    /\ html \in ShortInputs
    /\ ParserFresh
    /\ WidgetInit /\ document = <<>> /\ OnLinkClick = FALSE
    /\ FontInit
    /\ CacheInit
    /\ WrapIdle /\ LayoutIdle /\ LifeIdle /\ PastIdle /\ TableIdle /\ HostIdle

ReparseNext ==
    \/ ParseBegin
    \/ HandleTextState
    \/ HandleTagOpenState
    \/ HandleTagNameState
    \/ HandleAttributesState
    \/ HandleAttributeNameState
    \/ HandleAttributeValueState
    \/ HandleAttributeQuotedState
    \/ HandleTagCloseState
    \/ HandleEndTagState
    \/ HandleCommentState
    \/ ParseEnd
    \/ ParseAgain

ReparseSpec == ReparseStart /\ [][ReparseNext]_vars

(***************************************************************************)
(* Reading the tree.                                                      *)
(***************************************************************************)
NodeIds == 1..Len(nodes)

\* how many levels below the root node k lies
RECURSIVE Depth(_, _)
Depth(ns, k) == IF ns[k].Parent = 0 THEN 0 ELSE 1 + Depth(ns, ns[k].Parent)

\* the children of node k, in the order of Children
ChildrenOf(ns, k) == {j \in 1..Len(ns) : ns[j].Parent = k}

RECURSIVE Ancestors(_, _)
Ancestors(ns, k) ==
    IF ns[k].Parent = 0 THEN {} ELSE {ns[k].Parent} \cup Ancestors(ns, ns[k].Parent)

HasAttr(node, name, value) ==
    name \in DOMAIN node.Attributes /\ node.Attributes[name] = value

Chars(s) == {s[k] : k \in 1..Len(s)}

\* the step processes the '>' that ends an opening tag
OpenTagStep ==
    /\ Running
    /\ char = ">"
    /\ LoopState \in {StateTagName, StateAttributes, StateAttributeName, StateAttributeValue}

\* the step processes the '>' that ends a self-closing tag
SelfClosingStep == Running /\ char = ">" /\ LoopState = StateTagClose

\* the step processes the '>' that ends an end tag
EndTagStep == Running /\ char = ">" /\ LoopState = StateEndTag

(***************************************************************************)
(* The render handlers, on the tree Parse built.  A RenderContext is the  *)
(* record of X, Y, Width, CurrentX, Indent and ParentFont; a RenderResult *)
(* carries NextY, LinkAreas and Height, and with them the list markers    *)
(* drawn on the way.                                                       *)
(***************************************************************************)
\* node.Children of node k, in order
Kids(ns, k) == Ascending(ChildrenOf(ns, k))

\* the text children of node k written to one strings.Builder
TextContent(ns, k) ==
    LET kids == Kids(ns, k)
    IN  Cat([i \in 1..Len(kids) |->
                IF ns[kids[i]].Type = NodeTypeText THEN ns[kids[i]].Content ELSE <<>>])

\* the monospace font of w.Fonts
Monospace == [ID |-> 4, Face |-> Str_monospace, BaseSize |-> 14]
HeadingFonts ==
    << [ID |-> 6, Face |-> Str_arial, BaseSize |-> 32],
       [ID |-> 7, Face |-> Str_arial, BaseSize |-> 28],
       [ID |-> 8, Face |-> Str_arial, BaseSize |-> 24],
       [ID |-> 9, Face |-> Str_arial, BaseSize |-> 20],
       [ID |-> 10, Face |-> Str_arial, BaseSize |-> 18],
       Regular >>

RenderResult(nextY, linkAreas, height, markers) ==
    [NextY |-> nextY, LinkAreas |-> linkAreas, Height |-> height, Markers |-> markers]

\* the loop of renderText from word k on
RECURSIVE renderTextFrom(_, _, _, _, _, _)
renderTextFrom(words, k, width, font, currentLine, currentY) ==
    IF k > Len(words)
    THEN (IF currentLine # <<>> THEN currentY + lineHeight ELSE currentY) + LineGap
    ELSE LET testLine == (IF currentLine # <<>> THEN currentLine \o <<" ">> ELSE <<>>)
                         \o words[k]
             textWidth == measureTextWidth(font, testLine, font.BaseSize)
         IN  IF textWidth > width - (BodyMargin + BodyPadding) /\ currentLine # <<>>
             THEN renderTextFrom(words, k + 1, width, font, words[k],
                                 currentY + lineHeight)
             ELSE renderTextFrom(words, k + 1, width, font, testLine, currentY)

\* w.renderText: the y below the text
renderText(text, y, width, font) ==
    IF text = <<>> THEN y
    ELSE renderTextFrom(intelligentWordSplit(text), 1, width, font, <<>>, y)

TextRender(ns, k, ctx) ==
    IF ns[k].Content = <<>> THEN RenderResult(ctx.Y, <<>>, 0, <<>>)
    ELSE LET nextY == renderText(ns[k].Content, ctx.Y, ctx.Width, ctx.ParentFont)
         IN  RenderResult(nextY, <<>>, nextY - ctx.Y, <<>>)

\* the font a span's style attribute selects
StyledFont(node, parentFont) ==
    IF Str_style \in DOMAIN node.Attributes
    THEN IF Contains(node.Attributes[Str_style], FontStyleItalic) THEN Italic
         ELSE IF Contains(node.Attributes[Str_style], FontWeightBold) THEN Bold
         ELSE parentFont
    ELSE parentFont

\* href, _ := node.Attributes["href"]
HrefOf(node) ==
    IF Str_href \in DOMAIN node.Attributes THEN node.Attributes[Str_href] ELSE <<>>

FontSizeOr(font, fallback) == IF font.BaseSize = 0 THEN fallback ELSE font.BaseSize

LinkRender(ns, k, ctx) ==
    LET text == TextContent(ns, k)
        font == ctx.ParentFont
        fontSize == FontSizeOr(font, 16)
        textSize == MeasureTextEx(font, text, fontSize)
        linkArea == [Bounds |-> Rect(ctx.CurrentX, ctx.Y, textSize.X, textSize.Y),
                     URL |-> HrefOf(ns[k]), Hover |-> FALSE]
    IN  IF Len(text) = 0 THEN RenderResult(ctx.Y, <<>>, 0, <<>>)
        ELSE IF ns[k].Context = ContextInline
        THEN RenderResult(ctx.Y, <<linkArea>>, textSize.Y, <<>>)
        ELSE RenderResult(ctx.Y + textSize.Y + 5, <<linkArea>>, textSize.Y + 5, <<>>)

spacingBefore == <<25, 20, 18, 15, 12, 10>>
spacingAfter == <<15, 12, 10, 8, 6, 5>>
headingSizes == <<32, 28, 24, 20, 18, 16>>
headingTags == <<Str_h1, Str_h2, Str_h3, Str_h4, Str_h5, Str_h6>>

\* strconv.Atoi(node.Tag[1:]) for the tags the heading handler is registered for
HeadingLevel(tag) == CHOOSE level \in 1..6 : headingTags[level] = tag

HeadingRender(ns, k, ctx) ==
    LET level == HeadingLevel(ns[k].Tag)
        y == ctx.Y + spacingBefore[level]
        fontSize == FontSizeOr(HeadingFonts[level], headingSizes[level])
    IN  RenderResult(y + fontSize + spacingAfter[level], <<>>,
                     fontSize + spacingBefore[level] + spacingAfter[level], <<>>)

\* getSegmentsFromElement and getListItemSegmentsFromElement
RECURSIVE getSegmentsFromElement(_, _, _)
getSegmentsFromElement(ns, k, parentFont) ==
    LET font == IF ns[k].Tag = Str_span THEN StyledFont(ns[k], parentFont)
                ELSE parentFont
        kids == Kids(ns, k)
    IN  Cat([i \in 1..Len(kids) |->
                LET child == ns[kids[i]]
                IN  IF child.Type = NodeTypeText
                    THEN <<[text |-> child.Content, font |-> font,
                            href |-> HrefOf(ns[k])]>>
                    ELSE IF child.Type = NodeTypeElement /\ child.Context = ContextInline
                    THEN getSegmentsFromElement(ns, kids[i], font)
                    ELSE <<>>])

\* buildInlineSegments and buildListItemSegments
buildInlineSegments(ns, k, ctx) ==
    LET kids == Kids(ns, k)
    IN  Cat([i \in 1..Len(kids) |->
                LET child == ns[kids[i]]
                IN  IF child.Type = NodeTypeText
                    THEN <<[text |-> child.Content, font |-> ctx.ParentFont,
                            href |-> <<>>]>>
                    ELSE IF child.Type = NodeTypeElement /\ child.Context = ContextInline
                    THEN getSegmentsFromElement(ns, kids[i], ctx.ParentFont)
                    ELSE <<>>])

\* a RenderResult of renderSegmentsWithWrapping, no marker drawn
Unmarked(r) == RenderResult(r.NextY, r.LinkAreas, r.Height, <<>>)

Wrapped(segs, ctx) == Unmarked(renderSegmentsWithWrapping(segs, ctx))

ParagraphRender(ns, k, ctx) ==
    Wrapped(buildInlineSegments(ns, k, ctx),
            [ctx EXCEPT !.ParentFont = IF @.BaseSize = 0 THEN Regular ELSE @])

Digits == <<"0", "1", "2", "3", "4", "5", "6", "7", "8", "9">>

\* fmt.Sprintf("%d", n) for n >= 0
RECURSIVE Itoa(_)
Itoa(n) == IF n < 10 THEN <<Digits[n + 1]>> ELSE Itoa(n \div 10) \o <<Digits[(n % 10) + 1]>>

Bullet == <<"E2", "80", "A2">>

\* the index the list handler passes for the child at place i, counted from 1,
\* when it counts the li children only
ItemIndex_LiOnly(ns, kids, i) ==
    Cardinality({j \in 1..(i - 1) : ns[kids[j]].Tag = Str_li})

\* for i, child := range node.Children
ItemIndex(ns, kids, i) == i - 1

\* renderListItem: the marker, then the content of the item wrapped
renderListItem(ns, k, ctx, listType, index) ==
    LET marker == IF listType = Str_ol
                  THEN [Text |-> Itoa(index + 1) \o <<".">>, X |-> ctx.X - 20,
                        Y |-> ctx.Y, Item |-> k]
                  ELSE [Text |-> Bullet, X |-> ctx.X - 15, Y |-> ctx.Y, Item |-> k]
        contentCtx == [ctx EXCEPT !.CurrentX = ctx.X,
                                  !.ParentFont = IF @.BaseSize = 0 THEN Regular ELSE @]
        r == Wrapped(buildInlineSegments(ns, k, contentCtx), contentCtx)
    IN  [r EXCEPT !.Markers = <<marker>>]

\* result after a child returned childResult: its NextY, its link areas added
Gather(result, childResult) ==
    [result EXCEPT !.NextY = childResult.NextY,
                   !.LinkAreas = @ \o childResult.LinkAreas,
                   !.Markers = @ \o childResult.Markers]

\* the loop of ListRenderHandler.Render from the child at place i on
RECURSIVE listItemsFrom(_, _, _, _, _, _)
listItemsFrom(ns, k, kids, i, ctx, result) ==
    IF i > Len(kids) THEN [result EXCEPT !.Height = result.NextY - ctx.Y]
    ELSE IF ns[kids[i]].Tag = Str_li
    THEN LET baseIndent == 25
             nestedIndent == ctx.Indent * 20
             childCtx == [ctx EXCEPT !.X = ctx.X + baseIndent + nestedIndent,
                                     !.Y = result.NextY,
                                     !.Width = ctx.Width - baseIndent - nestedIndent
                                               - BodyMargin,
                                     !.Indent = ctx.Indent + 1]
         IN  listItemsFrom(ns, k, kids, i + 1, ctx,
                           Gather(result,
                                  renderListItem(ns, kids[i], childCtx, ns[k].Tag,
                                                 ItemIndex(ns, kids, i))))
    ELSE listItemsFrom(ns, k, kids, i + 1, ctx, result)

ListRender(ns, k, ctx) ==
    IF ns[k].Tag = Str_li THEN renderListItem(ns, k, ctx, Str_ul, 0)
    ELSE listItemsFrom(ns, k, Kids(ns, k), 1, ctx,
                       RenderResult(ctx.Y + 10, <<>>, 0, <<>>))

HRRender(ns, k, ctx) == RenderResult(ctx.Y + 10 + 15, <<>>, 25, <<>>)

BreakRender(ns, k, ctx) == RenderResult(ctx.Y + 20, <<>>, 20, <<>>)

\* renderCodeBlock, and the body of PreRenderHandler.Render
renderCodeBlock(content, ctx) ==
    LET y == ctx.Y + 10
        lines == Split(content, <<"\n">>)
        blockHeight == Len(lines) * 18 + 2 * 12
    IN  RenderResult(y + blockHeight + 10, <<>>, blockHeight + 20, <<>>)

PreRender(ns, k, ctx) ==
    IF Len(TextContent(ns, k)) = 0 THEN RenderResult(ctx.Y, <<>>, 0, <<>>)
    ELSE renderCodeBlock(TextContent(ns, k), ctx)

renderInlineCode(content, ctx) ==
    LET textSize == MeasureTextEx(Monospace, content, FontSizeOr(Monospace, 14))
    IN  IF ctx.CurrentX > 0 THEN RenderResult(ctx.Y, <<>>, textSize.Y + 5, <<>>)
        ELSE RenderResult(ctx.Y + textSize.Y + 5, <<>>, textSize.Y + 5, <<>>)

CodeRender(ns, k, ctx) ==
    IF Len(TextContent(ns, k)) = 0 THEN RenderResult(ctx.Y, <<>>, 0, <<>>)
    ELSE IF ns[k].Context = ContextBlock THEN renderCodeBlock(TextContent(ns, k), ctx)
    ELSE renderInlineCode(TextContent(ns, k), ctx)

\* RenderNode on node k of the tree, with SpanRenderHandler.Render and its
\* renderBlockChildren from the child at place i on
RECURSIVE RenderTreeNode(_, _, _)
RECURSIVE renderBlockChildren(_, _, _, _, _)
RECURSIVE renderBlockChild(_, _, _, _, _, _)
renderBlockChildren(ns, kids, i, childCtx, result) ==
    IF i > Len(kids) THEN result
    ELSE renderBlockChild(ns, kids, i, childCtx, result,
                          RenderTreeNode(ns, kids[i], childCtx))

\* the rest of the loop once the child at place i returned childResult
renderBlockChild(ns, kids, i, childCtx, result, childResult) ==
    renderBlockChildren(ns, kids, i + 1, [childCtx EXCEPT !.Y = childResult.NextY],
                        Gather(result, childResult))

SpanRender(ns, k, ctx) ==
    LET font == StyledFont(ns[k], ctx.ParentFont) 
    IN  IF ns[k].Context = ContextInline
        THEN IF Len(TextContent(ns, k)) = 0 THEN RenderResult(ctx.Y, <<>>, 0, <<>>)
             ELSE RenderResult(ctx.Y, <<>>, FontSizeOr(font, 16), <<>>)
        ELSE LET r == renderBlockChildren(ns, Kids(ns, k), 1,
                                          [ctx EXCEPT !.ParentFont = font],
                                          RenderResult(ctx.Y, <<>>, 0, <<>>))
             IN  [r EXCEPT !.Height = r.NextY - ctx.Y]

RenderTreeNode(ns, k, ctx) ==
    LET tag == ns[k].Tag
    IN  IF tag = Str_span THEN SpanRender(ns, k, ctx)
        ELSE IF tag = Str_a THEN LinkRender(ns, k, ctx)
        ELSE IF \E level \in 1..6 : headingTags[level] = tag THEN HeadingRender(ns, k, ctx)
        ELSE IF tag = Str_p THEN ParagraphRender(ns, k, ctx)
        ELSE IF tag \in {Str_ul, Str_ol} THEN ListRender(ns, k, ctx)
        ELSE IF tag = Str_hr THEN HRRender(ns, k, ctx)
        ELSE IF tag = Str_br THEN BreakRender(ns, k, ctx)
        ELSE IF tag = Str_pre THEN PreRender(ns, k, ctx)
        ELSE IF tag = Str_code THEN CodeRender(ns, k, ctx)
        ELSE TextRender(ns, k, ctx)

\* the result keeping the Y it started from
HeightFromStart(result, ctx, startY) == result.NextY - startY

\* result.Height = result.NextY - ctx.Y, after the loop has moved ctx.Y
HeightAfterLoop(result, ctx, startY) == result.NextY - ctx.Y

\* the loop of RenderDocument over the children of the root from place i on; each
\* carries the Y its child was rendered at and what its handler returned
RECURSIVE RenderTreeChildren(_, _, _, _, _, _, _)
RECURSIVE RenderTreeChild(_, _, _, _, _, _, _, _)
RenderTreeChildren(ns, kids, i, ctx, startY, result, each) ==
    IF i > Len(kids)
    THEN [Result |-> [result EXCEPT !.Height = HeightAfterLoop(result, ctx, startY)],
          Each |-> each]
    ELSE RenderTreeChild(ns, kids, i, ctx, startY, result, each,
                         RenderTreeNode(ns, kids[i], ctx))

\* the rest of the loop once the child at place i returned childResult
RenderTreeChild(ns, kids, i, ctx, startY, result, each, childResult) ==
    RenderTreeChildren(ns, kids, i + 1, [ctx EXCEPT !.Y = childResult.NextY], startY,
                       Gather(result, childResult),
                       Append(each, [Node |-> kids[i], Y |-> ctx.Y,
                                     Result |-> childResult]))

\* the text nodes whose Content getSegmentsFromElement (and its twin for list
\* items) puts in a segment: the text children, and those of the inline
\* element children, at any depth
RECURSIVE SegmentTexts(_, _)
SegmentTexts(ns, k) ==
    {j \in ChildrenOf(ns, k) : ns[j].Type = NodeTypeText}
    \cup UNION {SegmentTexts(ns, j) :
                   j \in {c \in ChildrenOf(ns, k) :
                             ns[c].Type = NodeTypeElement /\ ns[c].Context = ContextInline}}

\* the text children a handler writes to its strings.Builder
BuilderTexts(ns, k) == {j \in ChildrenOf(ns, k) : ns[j].Type = NodeTypeText}

\* the text nodes whose Content RenderNode on node k passes to a drawing call
RECURSIVE DrawnTexts(_, _)
DrawnTexts(ns, k) ==
    LET tag == ns[k].Tag
    IN  IF tag = Str_span
        THEN IF ns[k].Context = ContextInline THEN BuilderTexts(ns, k)
             ELSE UNION {DrawnTexts(ns, j) : j \in ChildrenOf(ns, k)}
        ELSE IF tag = Str_a THEN BuilderTexts(ns, k)
        ELSE IF \E level \in 1..6 : headingTags[level] = tag THEN BuilderTexts(ns, k)
        ELSE IF tag = Str_p THEN SegmentTexts(ns, k)
        ELSE IF tag \in {Str_ul, Str_ol}
        THEN UNION {SegmentTexts(ns, j) :
                       j \in {c \in ChildrenOf(ns, k) : ns[c].Tag = Str_li}}
        ELSE IF tag \in {Str_hr, Str_br} THEN {}
        ELSE IF tag \in {Str_pre, Str_code} THEN BuilderTexts(ns, k)
        ELSE IF ns[k].Content = <<>> THEN {} ELSE {k}

\* the text nodes RenderDocument draws: those of the children of the root
DrawnInDocument(ns) == UNION {DrawnTexts(ns, j) : j \in ChildrenOf(ns, 1)}

RenderTreeDocument(ns, ctx) ==
    RenderTreeChildren(ns, Kids(ns, 1), 1, ctx, ctx.Y,
                       RenderResult(ctx.Y, <<>>, 0, <<>>), <<>>)

\* the pages laid out
Attr(name, value) == <<" ">> \o name \o <<"=", "\"">> \o value \o <<"\"">>
Element(tag, attrs, inner) ==
    <<"<">> \o tag \o attrs \o <<">">> \o inner \o <<"<", "/">> \o tag \o <<">">>
LinkTo(url, inner) == Element(Str_a, Attr(Str_href, url), inner)
Str_intro == <<"i", "n", "t", "r", "o">>
LongLinkLen == 110

Pages ==
    {<<>>,
     Element(Str_p, <<>>, Word3 \o <<" ">> \o LinkTo(Str_urlA, Word3) \o <<" ">> \o Word3),
     LinkTo(Str_urlA, Word3) \o LinkTo(Str_urlB, Repeat(<<"a">>, LongLinkLen)),
     Element(Str_ol, <<>>, Element(Str_li, <<>>, Word3) \o Element(Str_li, <<>>, Word3)),
     Element(Str_ol, <<>>, Str_intro \o Element(Str_li, <<>>, Word3)
                           \o Element(Str_li, <<>>, LinkTo(Str_urlC, Word3))),
     Element(Str_ul, <<>>, Element(Str_li, <<>>, Word3)),
     Element(Str_p, <<>>, <<>>) \o Element(Str_h2, <<>>, <<>>)
         \o Element(Str_ul, <<>>, <<>>) \o Element(Str_pre, <<>>, <<>>),
     Element(Str_code, <<>>, <<>>) \o Element(Str_span, <<>>, <<>>)
         \o Element(Str_a, <<>>, <<>>) \o Element(Str_ol, <<>>, <<>>),
     Element(Str_h1, <<>>, Word3) \o <<"<", "h", "r", "/", ">">>
         \o <<"<", "!", "-", "-", "#", "-", "-", ">">> \o Word3,
     Element(Str_b, <<>>, Word3) \o <<"<", "b", "r", ">">>
         \o Element(Str_pre, <<>>, <<"a", "\n", "a">>)
         \o <<"<", "s", "p", "a", "n", " ", "i", "d", "=", "x", ">">> \o Word3
         \o <<"<", "/", "s", "p", "a", "n", ">">>,
     Element(Str_div, <<>>, Word3)
         \o Element(Str_h2, <<>>, Word3 \o Element(Str_b, <<>>, Word3))}

TreeWidths == {860}
TreeHeights == {620}

\* HTMLWidget.Render on the document Parse returned
RenderTree ==
    /\ pc = "done"
    /\ \E origin \in RenderOrigins, width \in TreeWidths, height \in TreeHeights :
        LET contentX == origin.X + BodyMargin + BodyPadding
            contentY == origin.Y + BodyMargin + BodyPadding - ScrollY
            contentWidth == width - 2 * (BodyMargin + BodyPadding)
            ctx == [X |-> contentX, Y |-> contentY, Width |-> contentWidth,
                    CurrentX |-> contentX, Indent |-> 0, ParentFont |-> Regular]
        IN  /\ rendered' = [Called |-> TRUE, Ctx |-> ctx, Width |-> width,
                            Out |-> RenderTreeDocument(nodes, ctx)]
            /\ WidgetHeight' = height
            /\ TotalHeight' = rendered'.Out.Result.NextY + ScrollY - contentY
                              + 2 * (BodyMargin + BodyPadding)
            /\ LinkAreas' = [i \in 1..Len(rendered'.Out.Result.LinkAreas) |->
                                ToDocumentSpace(rendered'.Out.Result.LinkAreas[i],
                                                ScrollY)]
            /\ lastCall' = "Render"
            /\ drawn' = [origin |-> origin]
            /\ event' = NoEvent
            /\ panicked' = FALSE
            /\ idle' = 0
            /\ UNCHANGED <<document, ScrollY, OnLinkClick, cursor, clicked, printed>>
            /\ UNCHANGED <<parserVars, fontVars, cacheVars, wrapVars, lifeVars, hostVars, tableVars, pastVars>>

LayoutStart ==
    /\ html \in Pages
    /\ ParserFresh
    /\ WidgetInit /\ document = <<>> /\ OnLinkClick = FALSE
    /\ FontInit /\ CacheInit /\ WrapIdle /\ LayoutIdle /\ LifeIdle /\ PastIdle /\ TableIdle /\ HostIdle

LayoutNext ==
    \/ ParseBegin
    \/ HandleTextState
    \/ HandleTagOpenState
    \/ HandleTagNameState
    \/ HandleAttributesState
    \/ HandleAttributeNameState
    \/ HandleAttributeValueState
    \/ HandleAttributeQuotedState
    \/ HandleTagCloseState
    \/ HandleEndTagState
    \/ HandleCommentState
    \/ ParseEnd
    \/ RenderTree
    \/ HostSetScrollY

LayoutSpec == LayoutStart /\ [][LayoutNext]_vars

(***************************************************************************)
(* The life of widgets on the one font manager: NewHTMLWidget loads the   *)
(* fonts of the widget and gives it an empty measurement cache, Unload    *)
(* releases them and clears the cache.  A host makes these calls from one *)
(* thread, so each GetFont and ReleaseFont runs from start to end.        *)
(***************************************************************************)
\* the font manager as one value
Manager == [fonts |-> fonts, refCounts |-> refCounts, fontStatus |-> fontStatus,
            live |-> live, loads |-> loads, unloads |-> unloads]

\* GetFont / GetMonospaceFont by a single caller; ok: the platform loads the file
GetFont(fm, key, ok) ==
    IF key \in DOMAIN fm.fonts THEN [fm EXCEPT !.refCounts = Incr(@, key)]
    ELSE IF ~HasPath(key[1])
    THEN [fm EXCEPT !.fonts = MapSet(@, key, DefaultFont),
                    !.refCounts = MapSet(@, key, 1),
                    !.fontStatus = MapSet(@, key, FALSE)]
    ELSE IF ok
    THEN [fm EXCEPT !.loads = @ + 1,
                    !.live = @ \cup {LoadedFont(key[2], fm.loads + 1).TextureID},
                    !.fonts = MapSet(@, key, LoadedFont(key[2], fm.loads + 1)),
                    !.refCounts = MapSet(@, key, 1),
                    !.fontStatus = MapSet(@, key, TRUE)]
    ELSE [fm EXCEPT !.fonts = MapSet(@, key, DefaultFont),
                    !.refCounts = MapSet(@, key, 1),
                    !.fontStatus = MapSet(@, key, FALSE)]

\* the entry of key dropped from the maps, its font unloaded if it is a loaded one
Dropped(fm, key, unload) ==
    [fm EXCEPT !.unloads = IF unload THEN Append(@, fm.fonts[key]) ELSE @,
               !.live = IF unload THEN @ \ {fm.fonts[key].TextureID} ELSE @,
               !.fonts = MapDelete(@, key),
               !.refCounts = MapDelete(@, key),
               !.fontStatus = MapDelete(@, key)]

\* ReleaseFont / ReleaseMonospaceFont called on the manager
Release(fm, key) ==
    IF key \notin DOMAIN fm.refCounts THEN fm
    ELSE IF DropsToZero(fm.refCounts[key] - 1)
    THEN Dropped(fm, key, key \in DOMAIN fm.fonts /\ ShouldUnload(fm.fonts[key]))
    ELSE [fm EXCEPT !.refCounts = MapSet(@, key, fm.refCounts[key] - 1)]

\* the calls of loadFonts, in order
LoadKeys ==
    << <<Str_arial, 16>>, <<Str_arialBold, 16>>, <<Str_arialItalic, 16>>,
       <<Str_arialBold, 16>>, <<Str_arial, 32>>, <<Str_arial, 28>>, <<Str_arial, 24>>,
       <<Str_arial, 20>>, <<Str_arial, 18>>, <<Str_arial, 16>>,
       <<Str_monospace, 14>>, <<Str_monospace, 16>> >>

\* Unload releasing every key of the widget once
UnloadKeys_OnceEach ==
    << <<Str_arial, 16>>, <<Str_arialBold, 16>>, <<Str_arialItalic, 16>>,
       <<Str_arial, 32>>, <<Str_arial, 28>>, <<Str_arial, 24>>,
       <<Str_arial, 20>>, <<Str_arial, 18>>,
       <<Str_monospace, 14>>, <<Str_monospace, 16>> >>

\* the calls of Unload, in order
UnloadKeys ==
    << <<Str_arial, 16>>, <<Str_arialBold, 16>>, <<Str_arialItalic, 16>>,
       <<Str_arialBold, 16>>, <<Str_arial, 32>>, <<Str_arial, 28>>, <<Str_arial, 24>>,
       <<Str_arial, 20>>, <<Str_arial, 18>>, <<Str_arial, 16>>,
       <<Str_monospace, 14>>, <<Str_monospace, 16>> >>

\* loadFonts from its k-th call on; failing: the names whose files do not load
RECURSIVE loadFontsFrom(_, _, _)
loadFontsFrom(fm, k, failing) ==
    IF k > Len(LoadKeys) THEN fm
    ELSE loadFontsFrom(GetFont(fm, LoadKeys[k], LoadKeys[k][1] \notin failing),
                       k + 1, failing)

\* the releases of Unload from the k-th on
RECURSIVE releaseFrom(_, _, _)
releaseFrom(fm, keys, k) ==
    IF k > Len(keys) THEN fm ELSE releaseFrom(Release(fm, keys[k]), keys, k + 1)

\* NewTextMeasureCache, and the cache after Clear
EmptyCache == [cache |-> <<>>, accessOrder |-> <<>>, fontTextures |-> <<>>]

\* the files that fail to load while a widget is made
LoadFailures ==
    {{}, {Str_arialBold}, {Str_monospace}, {Str_arial, Str_arialBold, Str_arialItalic}}

\* the manager written back to fm
Store(fm) ==
    /\ fonts' = fm.fonts
    /\ refCounts' = fm.refCounts
    /\ fontStatus' = fm.fontStatus
    /\ live' = fm.live
    /\ loads' = fm.loads
    /\ unloads' = fm.unloads

NewHTMLWidget(w) ==
    /\ widgets[w].state = "none"
    /\ \E failing \in LoadFailures :
          /\ Store(loadFontsFrom(Manager, 1, failing))
          /\ widgets' = [widgets EXCEPT ![w] =
                            [state |-> "live", textCache |-> EmptyCache,
                             Regular |-> fonts'[<<Str_arial, 16>>],
                             before |-> refCounts,
                             others |-> [v \in WidgetIds |-> widgets[v].state]]]
    /\ UNCHANGED <<call, held>>
    /\ UNCHANGED <<parserVars, widgetVars, cacheVars, wrapVars, layoutVars, hostVars, tableVars, pastVars>>

\* the widget measures a text in its regular font, through its cache
Measure(w) ==
    /\ widgets[w].state = "live"
    /\ \E text \in Texts :
          widgets' = [widgets EXCEPT ![w].textCache =
                         Lookup(@, [ID |-> widgets[w].Regular.TextureID,
                                    Face |-> Str_arial], text, 16)]
    /\ UNCHANGED nonLifeVars

\* the cache left as it is by Unload
Clear_Kept(tmc) == tmc

\* tmc.Clear()
Clear(tmc) == EmptyCache

Unload(w) ==
    /\ widgets[w].state = "live"
    /\ Store(releaseFrom(Manager, UnloadKeys, 1))
    /\ widgets' = [widgets EXCEPT ![w].state = "unloaded",
                                  ![w].textCache = Clear(@)]
    /\ UNCHANGED <<call, held>>
    /\ UNCHANGED <<parserVars, widgetVars, cacheVars, wrapVars, layoutVars, hostVars, tableVars, pastVars>>

LifeStart ==
    /\ html = <<>> /\ ParserInit
    /\ WidgetInit /\ document = <<>> /\ OnLinkClick = FALSE
    /\ FontInit /\ CacheInit /\ WrapIdle /\ LayoutIdle /\ LifeIdle /\ PastIdle /\ TableIdle /\ HostIdle

LifeNext ==
    \/ \E w \in WidgetIds : NewHTMLWidget(w)
    \/ \E w \in WidgetIds : Measure(w)
    \/ \E w \in WidgetIds : Unload(w)

LifeSpec == LifeStart /\ [][LifeNext]_vars

\* Unload called on a widget that has been unloaded before: the method has no
\* test of its own, so it releases the twelve keys and clears the cache again
UnloadAgain(w) ==
    /\ widgets[w].state = "unloaded"
    /\ Store(releaseFrom(Manager, UnloadKeys, 1))
    /\ widgets' = [widgets EXCEPT ![w].textCache = Clear(@)]
    /\ UNCHANGED <<call, held>>
    /\ UNCHANGED <<parserVars, widgetVars, cacheVars, wrapVars, layoutVars, hostVars, tableVars, pastVars>>

\* the widgets with Unload called any number of times
LifeAgainNext ==
    \/ \E w \in WidgetIds : NewHTMLWidget(w)
    \/ \E w \in WidgetIds : Measure(w)
    \/ \E w \in WidgetIds : Unload(w)
    \/ \E w \in WidgetIds : UnloadAgain(w)

LifeAgainSpec == LifeStart /\ [][LifeAgainNext]_vars

(***************************************************************************)
(* The nowser host: tabs that hold one widget each, loads that record     *)
(* pending content, and the main loop that replaces a tab's widget.  One  *)
(* turn of the loop is update(), with the address bar not being edited;   *)
(* the goroutine of loadURL runs beside it.  The fonts of the widgets are *)
(* acquired and released in the font manager.                             *)
(***************************************************************************)
MaxTabs == 2
MaxHostWidgets == 3

Url_indexFile == "file:///index.html"
Url_example == "https://example.com"
Url_fileA == "file:///a.html"
Url_relative == "c.html"
Url_fileC == "file:///c.html"
Url_exampleC == "https://example.com/c.html"
Url_httpsC == "https://c.html"

\* strings.HasPrefix(u, "file://"), and HasPrefix for "http://" or "https://"
IsFileURL(u) == u \in {Url_indexFile, Url_fileA, Url_fileC}
IsHttpURL(u) == u \in {Url_example, Url_exampleC, Url_httpsC}

\* base.Parse(rel) of the link handler, for the relative link of the pages
Resolve(base, rel) == IF IsFileURL(base) THEN Url_fileC ELSE Url_exampleC

\* what the pages are: the welcome page, a page read or fetched, the error page
WelcomeHTML == "welcome"
PageHTML == "page"
ErrorHTML == "error"

\* extractTitle of a page, and the title handleLoadError gives
PageTitle == "Page"
ErrorTitle == "Error"
WelcomeTitle == "Welcome to Nowser"

\* the fields of a tab the goroutine of loadURL stores before HasPending, in
\* the order of its statements
ContentFields == <<"PendingHTML", "PendingTitle", "PendingURL">>

\* the links of a page that a click can hit
ClickURLs == {Url_fileA, Url_relative}

NewTab(id, initialURL) ==
    [id |-> id, Widget |-> 0, URL |-> "", Title |-> "", Loading |-> FALSE,
     HasPending |-> FALSE, PendingHTML |-> "", PendingTitle |-> "", PendingURL |-> ""]

\* marquee.NewHTMLWidget(content), as the host holds it
HostWidget(content) == [state |-> "live", Content |-> content, textCache |-> EmptyCache]

\* currentTab: the index of the active tab in tabs, or 0 for nil
currentTab(a) ==
    IF a.activeTabIndex >= 0 /\ a.activeTabIndex < Len(a.tabs)
    THEN a.activeTabIndex + 1 ELSE 0

\* the content, title and URL a load leaves for the main loop
SetPending(a, i, content, title, url) ==
    [a EXCEPT !.tabs[i] = [@ EXCEPT !.PendingHTML = content, !.PendingTitle = title,
                                    !.PendingURL = url,
                                    !.HasPending = TRUE, !.Loading = FALSE]]

\* a load of a local file that puts the page in the tab at once
loadLocalFile_Replacing(a, fileURL, readOk) ==
    [a EXCEPT !.tabs[currentTab(a)] = [@ EXCEPT !.Widget = 0, !.URL = fileURL]]

\* loadLocalFile, with readOk: os.ReadFile succeeds
loadLocalFile(a, fileURL, readOk) ==
    IF currentTab(a) = 0 THEN a
    ELSE IF readOk THEN SetPending(a, currentTab(a), PageHTML, PageTitle, fileURL)
    ELSE SetPending(a, currentTab(a), ErrorHTML, ErrorTitle, "")

\* the URL loadURL fetches for a target that is not a file
FetchURL(targetURL) == IF IsHttpURL(targetURL) THEN targetURL ELSE Url_httpsC

\* loadURL: a local file is read at once, anything else starts a goroutine;
\* readOk is then whether the request of the goroutine succeeds
loadURL(a, targetURL, readOk) ==
    IF currentTab(a) = 0 THEN a
    ELSE IF IsFileURL(targetURL) THEN loadLocalFile(a, targetURL, readOk)
    ELSE [a EXCEPT !.tabs[currentTab(a)] = [@ EXCEPT !.Loading = TRUE],
                   !.fetches = @ \cup {[tab |-> a.tabs[currentTab(a)].id,
                                        url |-> FetchURL(targetURL),
                                        ok |-> readOk,
                                        content |-> 0, flag |-> FALSE]}]

\* the widgets made and those the loads under way will make stay within
\* MaxHostWidgets
Affordable(a) ==
    Len(a.objs) + Cardinality(a.fetches)
        + Cardinality({i \in 1..Len(a.tabs) : a.tabs[i].HasPending}) < MaxHostWidgets

\* the closure setupLinkHandler stores in tab.Widget.OnLinkClick, for the tab
\* at index i
linkHandler(a, i, clickedURL, readOk) ==
    loadURL(a,
            IF ~IsHttpURL(clickedURL) /\ ~IsFileURL(clickedURL) /\ a.tabs[i].URL # ""
            THEN Resolve(a.tabs[i].URL, clickedURL) ELSE clickedURL,
            readOk)

\* w.Unload() on the widget of id w, or nothing for nil
UnloadWidget(objs, w) ==
    IF w = 0 THEN objs
    ELSE [objs EXCEPT ![w] = [@ EXCEPT !.state = "unloaded", !.textCache = Clear(@)]]

\* createNewTab("https://", false): a tab that shows the welcome page
createNewTab(a) ==
    [a EXCEPT !.objs = Append(@, HostWidget(WelcomeHTML)),
              !.tabs = Append(@, [NewTab(a.nextTab, "https://")
                                     EXCEPT !.Widget = Len(a.objs) + 1,
                                            !.Title = WelcomeTitle]),
              !.nextTab = @ + 1,
              !.activeTabIndex = Len(a.tabs)]

\* closeTab(index), index counted from 0
closeTab(a, index) ==
    IF Len(a.tabs) <= 1 THEN a
    ELSE [a EXCEPT !.objs = UnloadWidget(@, a.tabs[index + 1].Widget),
                   !.tabs = RemoveAt(@, index + 1),
                   !.activeTabIndex =
                       IF @ >= Len(a.tabs) - 1 THEN Len(a.tabs) - 2
                       ELSE IF @ > index THEN @ - 1 ELSE @]

\* the font manager after closeTab(index)
closeTabFonts(a, index) ==
    IF Len(a.tabs) <= 1 \/ a.tabs[index + 1].Widget = 0 THEN Manager
    ELSE releaseFrom(Manager, UnloadKeys, 1)

\* NewBrowserApp without a saved session: one tab, loading the start page
EmptyApp ==
    [phase |-> "pending", cursor |-> 1, tabs |-> <<>>, activeTabIndex |-> 0,
     objs |-> <<>>, fetches |-> {}, nextTab |-> 1, clickedURL |-> ""]

NewBrowserApp(startURL, readOk) ==
    loadURL([EmptyApp EXCEPT !.tabs = <<NewTab(1, startURL)>>, !.nextTab = 2],
            startURL, readOk)

\* update(), the pending content of the tab at the cursor: the old widget is
\* unloaded and a new one is made of the pending content
ProcessPending ==
    /\ app.phase = "pending"
    /\ app.cursor <= Len(app.tabs)
    /\ LET i == app.cursor
           tab == app.tabs[i]
           next == [app EXCEPT !.cursor = IF i = Len(app.tabs) THEN 0 ELSE i + 1,
                               !.phase = IF i = Len(app.tabs) THEN "keyboard" ELSE "pending"]
       IN  IF tab.HasPending
           THEN /\ Len(app.objs) < MaxHostWidgets
                /\ app' = [next EXCEPT
                              !.objs = Append(UnloadWidget(@, tab.Widget),
                                              HostWidget(tab.PendingHTML)),
                              !.tabs[i] = [@ EXCEPT !.Widget = Len(app.objs) + 1,
                                                    !.URL = tab.PendingURL,
                                                    !.Title = tab.PendingTitle,
                                                    !.HasPending = FALSE]]
                /\ Store(loadFontsFrom(IF tab.Widget = 0 THEN Manager
                                       ELSE releaseFrom(Manager, UnloadKeys, 1), 1, {}))
           ELSE /\ app' = next
                /\ UNCHANGED <<fonts, refCounts, fontStatus, live, loads, unloads>>
    /\ UNCHANGED <<call, held>>
    /\ UNCHANGED nonHostFontVars

\* whether update() goes on to tab.Widget.Update()
UpdatesWidget(a) ==
    currentTab(a) # 0 /\ a.tabs[currentTab(a)].Widget # 0

\* the main loop draws the frame and starts update() again
NextFrame(a) == [a EXCEPT !.phase = "pending", !.cursor = 1]

AfterKeyboard(a) == IF UpdatesWidget(a) THEN [a EXCEPT !.phase = "update"] ELSE NextFrame(a)

Keys == {"none", "T", "W", "1", "2"}

\* handleKeyboard, and the test that leads update() to the widget of the tab
HandleKeyboard ==
    /\ app.phase = "keyboard"
    /\ \E key \in Keys :
          /\ key = "T" => Len(app.tabs) < MaxTabs /\ Affordable(app)
          /\ app' = AfterKeyboard(
                 IF key = "T" THEN createNewTab(app)
                 ELSE IF key = "W" THEN closeTab(app, app.activeTabIndex)
                 ELSE IF key = "1" THEN [app EXCEPT !.activeTabIndex = 0]
                 ELSE IF key = "2" /\ 1 < Len(app.tabs)
                     THEN [app EXCEPT !.activeTabIndex = 1]
                 ELSE app)
          /\ Store(IF key = "T" THEN loadFontsFrom(Manager, 1, {})
                   ELSE IF key = "W" THEN closeTabFonts(app, app.activeTabIndex)
                   ELSE Manager)
    /\ UNCHANGED <<call, held>>
    /\ UNCHANGED nonHostFontVars

\* Widget.Update() of the active tab, up to the call of OnLinkClick for a
\* link area the click hits (the loop over the link areas goes on after the
\* callback returns), or to its end when no link is clicked
WidgetUpdate ==
    /\ app.phase \in {"update", "returning"}
    /\ \/ app.phase = "update" /\ app' = NextFrame(app)
       \/ \E clickedURL \in ClickURLs :
             app' = [app EXCEPT !.phase = "callback", !.clickedURL = clickedURL]
    /\ UNCHANGED nonHostVars

\* the OnLinkClick closure, called inside Widget.Update()
LinkHandler ==
    /\ app.phase = "callback"
    /\ Affordable(app)
    /\ \E readOk \in BOOLEAN :
          app' = [linkHandler(app, currentTab(app), app.clickedURL, readOk)
                     EXCEPT !.phase = "returning", !.clickedURL = ""]
    /\ UNCHANGED nonHostVars

\* Widget.Update() returns to update(), and update() to the main loop
UpdateReturn ==
    /\ app.phase = "returning"
    /\ app' = NextFrame(app)
    /\ UNCHANGED nonHostVars

\* the tab a goroutine writes to, or 0 when the tab has been closed
TabOf(a, f) ==
    IF \E i \in 1..Len(a.tabs) : a.tabs[i].id = f.tab
    THEN CHOOSE i \in 1..Len(a.tabs) : a.tabs[i].id = f.tab ELSE 0

Written(a, f, g) ==
    IF g.content = Len(ContentFields) /\ g.flag THEN a.fetches \ {f}
    ELSE (a.fetches \ {f}) \cup {g}

\* what the goroutine of loadURL, or handleLoadError called by it, stores in
\* a field of the tab
Stored(f, field) ==
    IF field = "PendingHTML" THEN (IF f.ok THEN PageHTML ELSE ErrorHTML)
    ELSE IF field = "PendingTitle" THEN (IF f.ok THEN PageTitle ELSE ErrorTitle)
    ELSE (IF f.ok THEN f.url ELSE "")

\* the tab at index i after the goroutine has stored the fields from the
\* k-th on
RECURSIVE StoredFrom(_, _, _)
StoredFrom(tab, f, k) ==
    IF k > Len(ContentFields) THEN tab
    ELSE StoredFrom([tab EXCEPT ![ContentFields[k]] = Stored(f, ContentFields[k])],
                    f, k + 1)

\* the goroutine of loadURL stores the page, or the error page, with no step
\* of the main loop or of another goroutine between the three stores.  The
\* main loop reads these fields without synchronisation, so the stores of
\* HasPending and Loading may reach it before or after them
FetchContent ==
    /\ \E f \in app.fetches :
          /\ f.content = 0
          /\ LET i == TabOf(app, f)
                 g == [f EXCEPT !.content = Len(ContentFields)]
             IN  app' = [app EXCEPT
                            !.fetches = Written(app, f, g),
                            !.tabs = IF i = 0 THEN @
                                     ELSE [@ EXCEPT ![i] = StoredFrom(@, f, 1)]]
    /\ UNCHANGED nonHostVars

\* the goroutine of loadURL stores the next of the three fields, the main loop
\* and the other goroutines free to run between two stores
FetchStore ==
    /\ \E f \in app.fetches :
          /\ f.content < Len(ContentFields)
          /\ LET i == TabOf(app, f)
                 field == ContentFields[f.content + 1]
                 g == [f EXCEPT !.content = @ + 1]
             IN  app' = [app EXCEPT
                            !.fetches = Written(app, f, g),
                            !.tabs = IF i = 0 THEN @
                                     ELSE [@ EXCEPT ![i] =
                                              [@ EXCEPT ![field] = Stored(f, field)]]]
    /\ UNCHANGED nonHostVars

FetchFlag ==
    /\ \E f \in app.fetches :
          /\ ~f.flag
          /\ LET i == TabOf(app, f)
                 g == [f EXCEPT !.flag = TRUE]
             IN  app' = [app EXCEPT
                            !.fetches = Written(app, f, g),
                            !.tabs = IF i = 0 THEN @
                                     ELSE [@ EXCEPT ![i] =
                                              [@ EXCEPT !.HasPending = TRUE,
                                                        !.Loading = FALSE]]]
    /\ UNCHANGED nonHostVars

\* the widgets of tabs from the i-th on, unloaded
RECURSIVE cleanupFrom(_, _, _)
cleanupFrom(objs, tabs, i) ==
    IF i > Len(tabs) THEN objs
    ELSE cleanupFrom(UnloadWidget(objs, tabs[i].Widget), tabs, i + 1)

RECURSIVE cleanupFonts(_, _, _)
cleanupFonts(fm, tabs, i) ==
    IF i > Len(tabs) THEN fm
    ELSE cleanupFonts(IF tabs[i].Widget = 0 THEN fm ELSE releaseFrom(fm, UnloadKeys, 1),
                      tabs, i + 1)

\* the window is closed at the top of the main loop: cleanup()
Cleanup ==
    /\ app.phase = "pending"
    /\ app.cursor = 1
    /\ app' = [app EXCEPT !.phase = "exited", !.cursor = 0,
                          !.objs = cleanupFrom(@, app.tabs, 1)]
    /\ Store(cleanupFonts(Manager, app.tabs, 1))
    /\ UNCHANGED <<call, held>>
    /\ UNCHANGED nonHostFontVars

HostStart ==
    /\ \E startURL \in {Url_example, Url_indexFile} : \E readOk \in BOOLEAN :
          app = NewBrowserApp(startURL, readOk)
    /\ html \in {<<>>}
    /\ ParserFresh
    /\ WidgetInit /\ document = <<>> /\ OnLinkClick = FALSE
    /\ FontInit /\ CacheInit /\ WrapIdle /\ LayoutIdle /\ LifeIdle /\ PastIdle /\ TableIdle

HostNext ==
    \/ ProcessPending
    \/ HandleKeyboard
    \/ WidgetUpdate
    \/ LinkHandler
    \/ UpdateReturn
    \/ FetchContent
    \/ FetchFlag
    \/ Cleanup

HostSpec == HostStart /\ [][HostNext]_vars

\* the host with the stores of a goroutine taken one at a time
RaceNext ==
    \/ ProcessPending
    \/ HandleKeyboard
    \/ WidgetUpdate
    \/ LinkHandler
    \/ UpdateReturn
    \/ FetchStore
    \/ FetchFlag
    \/ Cleanup

RaceSpec == HostStart /\ [][RaceNext]_vars

(***************************************************************************)
(* The table handler: parseTableStructure, measureTableContent and        *)
(* calculateColumnWidths.  A cell is the text it holds, given by the      *)
(* width the text measures (or Empty for a cell without text).  The       *)
(* widths are float32 in the source; here a width is an exact fraction    *)
(* num / den, so the divisions of the proportional branches lose nothing. *)
(***************************************************************************)
MaxCols == 2

\* how many rows the tables have
RowCounts == {1, 2}

\* the cells: no text, a short text and a long one, by the width measured
CellTexts == {[Empty |-> TRUE, X |-> 0], [Empty |-> FALSE, X |-> 16],
              [Empty |-> FALSE, X |-> 100]}

\* the widths of the render context
TableCtxWidths == {20, 60, 150, 190, 400}

RECURSIVE RowsOfLen(_)
RowsOfLen(n) ==
    IF n = 0 THEN {<<>>}
    ELSE {Append(r, c) : r \in RowsOfLen(n - 1), c \in CellTexts}

TableRows == UNION {RowsOfLen(n) : n \in 0..MaxCols}

Tables == UNION {[1..k -> TableRows] : k \in RowCounts}

Larger(a, b) == IF a > b THEN a ELSE b

\* the column count parseTableStructure finds: the longest row
RECURSIVE ColumnCountFrom(_, _)
ColumnCountFrom(rows, k) ==
    IF k > Len(rows) THEN 0 ELSE Larger(Len(rows[k]), ColumnCountFrom(rows, k + 1))

CellPadding == 12
EmptyCellMin == 50
EmptyCellPref == 100

\* measureCellContent: the preferred width of a text of more than three words
\* is lifted to the minimum width, so a cell with text has both equal
measureCellContent(cell) ==
    IF cell.Empty THEN [MinWidth |-> EmptyCellMin, PrefWidth |-> EmptyCellPref]
    ELSE [MinWidth |-> cell.X + 2 * CellPadding, PrefWidth |-> cell.X + 2 * CellPadding]

measureTableContent(rows) ==
    [r \in 1..Len(rows) |-> [c \in 1..Len(rows[r]) |-> measureCellContent(rows[r][c])]]

BorderWidth == 1

availableWidth(ctxWidth, columnCount) ==
    ctxWidth - (BodyMargin + BodyPadding) - (columnCount + 1) * BorderWidth

\* the largest MinWidth (PrefWidth) of the cells of column i, from row k on
RECURSIVE colMinFrom(_, _, _)
colMinFrom(rows, i, k) ==
    IF k > Len(rows) THEN 0
    ELSE Larger(IF i <= Len(rows[k]) THEN rows[k][i].MinWidth ELSE 0,
             colMinFrom(rows, i, k + 1))

RECURSIVE colPrefFrom(_, _, _)
colPrefFrom(rows, i, k) ==
    IF k > Len(rows) THEN 0
    ELSE Larger(IF i <= Len(rows[k]) THEN rows[k][i].PrefWidth ELSE 0,
             colPrefFrom(rows, i, k + 1))

RECURSIVE SumSeq(_)
SumSeq(s) == IF s = <<>> THEN 0 ELSE Head(s) + SumSeq(Tail(s))

Whole(n) == [num |-> n, den |-> 1]

\* the preferred width and its share of the extra space
PrefBranchWidth(prefW, extraSpace, totalPref) ==
    IF extraSpace > 0
    THEN [num |-> prefW * totalPref + extraSpace * prefW, den |-> totalPref]
    ELSE Whole(prefW)

\* the minimum width with a share of the extra space by preferred width
MinBranchWidth_ByPref(minW, prefW, extraSpace, spread) ==
    [num |-> minW * spread + extraSpace * prefW, den |-> spread]

\* the minimum width and its share of the extra space, by (pref - min) out of
\* spread = totalPref - totalMin
MinBranchWidth(minW, prefW, extraSpace, spread) ==
    IF spread > 0
    THEN [num |-> minW * spread + extraSpace * (prefW - minW), den |-> spread]
    ELSE Whole(minW)

\* calculateColumnWidths on the measured rows
columnWidthsOf(minWidths, prefWidths, available, n) ==
    LET totalMin == SumSeq(minWidths)
        totalPref == SumSeq(prefWidths)
    IN  IF totalPref <= available
        THEN [i \in 1..n |-> PrefBranchWidth(prefWidths[i], available - totalPref, totalPref)]
        ELSE IF totalMin <= available
        THEN [i \in 1..n |-> MinBranchWidth(minWidths[i], prefWidths[i],
                                            available - totalMin, totalPref - totalMin)]
        ELSE [i \in 1..n |-> [num |-> available, den |-> n]]

TableInit ==
    \E rows \in Tables : \E w \in TableCtxWidths :
        table = [phase |-> "parsed", Rows |-> rows, Width |-> w,
                 ColumnCount |-> ColumnCountFrom(rows, 1)]

\* renderTable, phase 2a: every cell is measured
MeasureTable ==
    /\ table.phase = "parsed"
    /\ table' = [phase |-> "measured", Rows |-> table.Rows, Width |-> table.Width,
                 ColumnCount |-> table.ColumnCount,
                 Cells |-> measureTableContent(table.Rows)]
    /\ UNCHANGED nonTableVars

\* renderTable, phase 2b
CalculateColumnWidths ==
    /\ table.phase = "measured"
    /\ LET n == table.ColumnCount
           minWidths == [i \in 1..n |-> colMinFrom(table.Cells, i, 1)]
           prefWidths == [i \in 1..n |-> colPrefFrom(table.Cells, i, 1)]
           available == availableWidth(table.Width, n)
       IN  table' = [phase |-> "sized", Rows |-> table.Rows, Width |-> table.Width,
                     ColumnCount |-> n, Cells |-> table.Cells,
                     MinWidths |-> minWidths, PrefWidths |-> prefWidths,
                     Available |-> available,
                     ColumnWidths |->
                         IF n = 0 THEN <<>>
                         ELSE columnWidthsOf(minWidths, prefWidths, available, n),
                     TotalWidth |->
                         IF n = 0 THEN 0 ELSE available + (n + 1) * BorderWidth]
    /\ UNCHANGED nonTableVars

TableStart ==
    /\ TableInit
    /\ html \in {<<>>}
    /\ ParserFresh
    /\ WidgetInit /\ document = <<>> /\ OnLinkClick = FALSE
    /\ FontInit /\ CacheInit /\ WrapIdle /\ LayoutIdle /\ LifeIdle /\ PastIdle /\ HostIdle

TableNext ==
    \/ MeasureTable
    \/ CalculateColumnWidths

TableSpec == TableStart /\ [][TableNext]_vars

(***************************************************************************)
(* C1.  For every input Parse terminates: while it parses, every step     *)
(* moves the position one character forward, the position never passes    *)
(* the input's length, and Parse reaches its return.  At every step the   *)
(* stack holds at most maxDepth+1 entries, and no node lies more than     *)
(* maxDepth+1 levels below the root.                                      *)
(***************************************************************************)
ParseBounded ==
    /\ position <= Len(input)
    /\ Len(nodeStack) <= maxDepth + 1
    /\ \A k \in NodeIds : Depth(nodes, k) <= maxDepth + 1

ParseProgress == (pc = "parsing" /\ pc' = "parsing") => position' = position + 1

C1_ParseTerminatesBounded ==
    /\ []ParseBounded
    /\ [][ParseProgress]_vars
    /\ <>(pc = "done")

\* an input nested past the cap is being parsed: the stack is full (the root and
\* maxDepth open elements) and a node hangs maxDepth+1 levels below the root
C1_Witness ==
    /\ pc = "parsing"
    /\ Len(nodeStack) = maxDepth + 1
    /\ currentDepth = maxDepth
    /\ \E k \in NodeIds : Depth(nodes, k) = maxDepth + 1

(***************************************************************************)
(* C2.  After every Update, ScrollY lies between 0 and                    *)
(* max(0, TotalHeight - WidgetHeight), WidgetHeight being the height the  *)
(* most recent Render was given.                                          *)
(***************************************************************************)
Max(a, b) == IF a >= b THEN a ELSE b

C2_ScrollWithinRange ==
    lastCall = "Update" =>
        /\ 0 <= ScrollY
        /\ ScrollY <= Max(0, TotalHeight - WidgetHeight)

(***************************************************************************)
(* C3.  Every opening or self-closing tag named b, strong, i or em, in    *)
(* any letter case, creates a node with Tag span and the style of its     *)
(* name; no node of the tree has tag b, strong, i or em.                  *)
(***************************************************************************)
FormattingTags == {Str_b, Str_strong, Str_i, Str_em}

StyleOf(t) == IF t \in {Str_b, Str_strong} THEN FontWeightBold ELSE FontStyleItalic

FormatTagNormalized ==
    ((OpenTagStep \/ SelfClosingStep) /\ ToLower(tagBuffer) \in FormattingTags)
        => /\ Len(nodes') = Len(nodes) + 1
           /\ nodes'[Len(nodes')].Type = NodeTypeElement
           /\ nodes'[Len(nodes')].Tag = Str_span
           /\ HasAttr(nodes'[Len(nodes')], Str_style, StyleOf(ToLower(tagBuffer)))

NoFormattingTagInTree == \A k \in NodeIds : nodes[k].Tag \notin FormattingTags

C3_FormattingNormalized == [][FormatTagNormalized]_vars /\ []NoFormattingTagInTree

\* an upper-case <EM ...> or <STRONG ...> has been parsed into an italic or bold span
C3_Witness ==
    /\ pc = "done"
    /\ Chars(html) \cap {"e", "m", "s", "t", "r", "o", "n", "g", "i", "b"} = {}
    /\ \E k \in NodeIds : nodes[k].Tag = Str_span /\ HasAttr(nodes[k], Str_style, FontStyleItalic)
    /\ Len(nodes) = 2

(***************************************************************************)
(* C4.  An end tag </t> truncates the stack at the topmost entry whose    *)
(* original tag name is t, and no entry whose original tag differs from t *)
(* is closed as its match: with no such entry the stack stays as it is.   *)
(***************************************************************************)
SetMax(S) == CHOOSE x \in S : \A y \in S : y <= x

\* the open entries (the root apart) whose original tag name is t
OriginalMatches(t) == {i \in 2..Len(nodeStack) : nodeStack[i].OriginalTag = t}

EndTagMatchesOriginal ==
    (EndTagStep /\ ValidTagName(ToLower(tagBuffer)))
        => LET t == ToLower(tagBuffer)
           IN  IF OriginalMatches(t) = {}
                 THEN nodeStack' = nodeStack
                 ELSE nodeStack' = SubSeq(nodeStack, 1, SetMax(OriginalMatches(t)) - 1)

C4_EndTagMatchesOriginal == [][EndTagMatchesOriginal]_vars

(***************************************************************************)
(* C5.  An end tag that matches an open entry closes with it every entry  *)
(* opened after it: the stack is cut to just below the match, whose top   *)
(* is then the matched element's parent, and every node is appended to    *)
(* the top of the stack.  For '<p>open <b>but never closed</p><p>next</p>'*)
(* the root has exactly two p children, the first holding the bold span   *)
(* and the second the text 'next'.                                        *)
(***************************************************************************)
\* the open entries (the root apart) an end tag named t can close
Matches(t) == {i \in 2..Len(nodeStack) :
                  nodes[nodeStack[i].Node].Tag = t \/ nodeStack[i].OriginalTag = t}

EndTagClosesThrough ==
    (EndTagStep /\ ValidTagName(ToLower(tagBuffer)) /\ Matches(ToLower(tagBuffer)) # {})
        => LET m == SetMax(Matches(ToLower(tagBuffer)))
           IN  /\ nodeStack' = SubSeq(nodeStack, 1, m - 1)
               /\ Top(nodeStack').Node = nodes[nodeStack[m].Node].Parent

NodeAppendedToTop ==
    (pc = "parsing" /\ Len(nodes') = Len(nodes) + 1)
        => nodes'[Len(nodes')].Parent = Top(nodeStack).Node

Str_next == <<"n", "e", "x", "t">>
Str_never == <<"b", "u", "t", " ", "n", "e", "v", "e", "r", " ", "c", "l", "o", "s", "e", "d">>

IsText(k, content) == nodes[k].Type = NodeTypeText /\ nodes[k].Content = content

Scenario4Tree ==
    (pc = "done" /\ html = Scenario4)
        => /\ Cardinality(ChildrenOf(nodes, 1)) = 2
           /\ \A k \in ChildrenOf(nodes, 1) :
                 nodes[k].Type = NodeTypeElement /\ nodes[k].Tag = Str_p
           /\ \E a, b \in ChildrenOf(nodes, 1) :
                 /\ a < b
                 /\ \E sp \in ChildrenOf(nodes, a) :
                       /\ nodes[sp].Tag = Str_span
                       /\ HasAttr(nodes[sp], Str_style, FontWeightBold)
                       /\ \E t \in ChildrenOf(nodes, sp) : IsText(t, Str_never)
                 /\ Cardinality(ChildrenOf(nodes, b)) = 1
                 /\ \A t \in ChildrenOf(nodes, b) : IsText(t, Str_next)

C5_ImplicitClose ==
    /\ [][EndTagClosesThrough /\ NodeAppendedToTop]_vars
    /\ []Scenario4Tree

\* '<p>open <b>but never closed</p><p>next</p>' has been parsed: </p> closed the
\* open <b> with the <p>, and the second <p> hangs from the root
C5_Witness ==
    /\ pc = "done"
    /\ html = Scenario4
    /\ Cardinality(ChildrenOf(nodes, 1)) = 2
    /\ Len(nodes) = 7

(***************************************************************************)
(* C6.  Every element node that descends from a p or li element has       *)
(* Context Inline, whatever its tag.                                      *)
(***************************************************************************)
C6_InlineUnderParagraph ==
    \A k \in NodeIds :
        (/\ nodes[k].Type = NodeTypeElement
         /\ \E a \in Ancestors(nodes, k) : nodes[a].Tag \in {Str_p, Str_li})
            => nodes[k].Context = ContextInline

(***************************************************************************)
(* C7.  Every element whose tag is one of p, div, h1..h6, ul, ol, li,     *)
(* pre, hr, table, thead, tbody, tr and whose parent has Context Block or *)
(* Root has Context Block.                                                *)
(***************************************************************************)
SpecBlockTags == {Str_p, Str_div, Str_h1, Str_h2, Str_h3, Str_h4, Str_h5, Str_h6,
                  Str_ul, Str_ol, Str_li, Str_pre, Str_hr,
                  Str_table, Str_thead, Str_tbody, Str_tr}

C7_BlockTagsBlock ==
    \A k \in NodeIds :
        (/\ nodes[k].Type = NodeTypeElement
         /\ nodes[k].Tag \in SpecBlockTags
         /\ nodes[nodes[k].Parent].Context \in {ContextBlock, ContextRoot})
            => nodes[k].Context = ContextBlock

\* C7, amended.  Every element whose tag is one of p, div, h1..h6, ul, ol, li,
\* pre, hr, table, thead, tbody, tr and whose parent has Context Block or Root
\* and is not a p or li element has Context Block.
C7_BlockTagsBlockOutsideParagraph ==
    \A k \in NodeIds :
        (/\ nodes[k].Type = NodeTypeElement
         /\ nodes[k].Tag \in SpecBlockTags
         /\ nodes[nodes[k].Parent].Context \in {ContextBlock, ContextRoot}
         /\ nodes[nodes[k].Parent].Tag \notin {Str_p, Str_li})
            => nodes[k].Context = ContextBlock

\* a tr parsed inside a div
C7_Witness ==
    /\ pc = "done"
    /\ \E k \in NodeIds :
          /\ nodes[k].Tag = Str_tr
          /\ nodes[k].Context = ContextBlock
          /\ nodes[nodes[k].Parent].Tag = Str_div

(***************************************************************************)
(* C8.  Below the depth cap, a non-self-closing opening tag named p, div, *)
(* ul, ol, li, h1..h6, a, b, i, strong, em, span, pre, code, dl, dt, dd,  *)
(* table, thead, tbody, tr, th or td pushes the node it creates on the    *)
(* stack, so that what follows up to its end tag becomes its children.    *)
(***************************************************************************)
SpecContainers == {Str_p, Str_div, Str_ul, Str_ol, Str_li,
                   Str_h1, Str_h2, Str_h3, Str_h4, Str_h5, Str_h6,
                   Str_a, Str_b, Str_i, Str_strong, Str_em, Str_span, Str_pre, Str_code,
                   Str_dl, Str_dt, Str_dd,
                   Str_table, Str_thead, Str_tbody, Str_tr, Str_th, Str_td}

ContainerPushed ==
    (OpenTagStep /\ ToLower(tagBuffer) \in SpecContainers /\ currentDepth < maxDepth)
        => /\ Len(nodes') = Len(nodes) + 1
           /\ nodeStack' = Append(nodeStack, [Node |-> Len(nodes'),
                                              OriginalTag |-> ToLower(tagBuffer)])

C8_ContainerPushed == [][ContainerPushed]_vars

(***************************************************************************)
(* C9.  Wherever a terminated comment stands in the input, no character   *)
(* of its body reaches a text node, a tag or an attribute of the tree,    *)
(* and the parser is in StateText right after the comment's '-->'.        *)
(***************************************************************************)
AttrChars(node) ==
    UNION {Chars(a) \cup Chars(node.Attributes[a]) : a \in DOMAIN node.Attributes}

BodyLeaks ==
    \E k \in NodeIds :
        Chars(CommentBody) \cap (Chars(nodes[k].Content) \cup Chars(nodes[k].Tag)
                                  \cup AttrChars(nodes[k])) # {}

\* the characters just read are a whole comment
CommentJustRead ==
    /\ pc = "parsing"
    /\ position >= Len(CommentOf(CommentBody))
    /\ SubSeq(input, position - Len(CommentOf(CommentBody)) + 1, position)
          = CommentOf(CommentBody)

C9_CommentDiscarded ==
    /\ ~BodyLeaks
    /\ CommentJustRead => state = StateText

(***************************************************************************)
(* C10.  For every input without comments whose tags are complete, the    *)
(* Content of the text nodes, concatenated in depth-first document order, *)
(* is the trimmed input with its tags removed and its whitespace-only     *)
(* text runs dropped.                                                     *)
(***************************************************************************)
RECURSIVE TextOf(_, _)
RECURSIVE ChildrenText(_, _, _)

\* the text of the subtree of node k, in document order
TextOf(ns, k) ==
    IF ns[k].Type = NodeTypeText THEN ns[k].Content ELSE ChildrenText(ns, k, k + 1)

ChildrenText(ns, k, j) ==
    IF j > Len(ns) THEN <<>>
    ELSE (IF ns[j].Parent = k THEN TextOf(ns, j) ELSE <<>>) \o ChildrenText(ns, k, j + 1)

KeepRun(run) == IF TrimSpace(run) = <<>> THEN <<>> ELSE run

\* the text runs of s between its tags, the whitespace-only ones dropped,
\* concatenated; a tag runs from '<' to the next '>' outside a quoted value
RECURSIVE TextRuns(_, _, _, _, _)
TextRuns(s, k, mode, run, acc) ==
    IF k > Len(s) THEN acc \o KeepRun(run)
    ELSE IF mode = "text"
        THEN IF s[k] = "<" THEN TextRuns(s, k + 1, "tag", <<>>, acc \o KeepRun(run))
             ELSE TextRuns(s, k + 1, "text", Append(run, s[k]), acc)
    ELSE IF mode = "tag"
        THEN IF s[k] = ">" THEN TextRuns(s, k + 1, "text", <<>>, acc)
             ELSE IF s[k] \in {"\"", "'"} THEN TextRuns(s, k + 1, s[k], <<>>, acc)
             ELSE TextRuns(s, k + 1, "tag", <<>>, acc)
    ELSE IF s[k] = mode THEN TextRuns(s, k + 1, "tag", <<>>, acc)
         ELSE TextRuns(s, k + 1, mode, <<>>, acc)

ExpectedText(s) == TextRuns(TrimSpace(s), 1, "text", <<>>, <<>>)

HasComment(s) == \E k \in 1..(Len(s) - 1) : s[k] = "<" /\ s[k + 1] = "!"

C10_TextRoundTrip ==
    (pc = "done" /\ ~HasComment(html)) => TextOf(nodes, 1) = ExpectedText(html)

\* an input with surrounding whitespace, a tag and a whitespace-only run has
\* been parsed, and some of its text is in the tree
C10_Witness ==
    /\ pc = "done"
    /\ ~HasComment(html)
    /\ html # TrimSpace(html)
    /\ \E k \in NodeIds : nodes[k].Type = NodeTypeElement
    /\ TextOf(nodes, 1) # <<>>
    /\ Len(TextOf(nodes, 1)) < Cardinality({k \in 1..Len(input) : input[k] \in {" ", "\t", "\n", "H", "e", "l", "o"}})

(***************************************************************************)
(* C11.  In an Update with the left button pressed and the mouse inside   *)
(* the stored rectangle of a link moved up by ScrollY, OnLinkClick is     *)
(* called exactly once, with the URL of that link; in an Update without   *)
(* the button, or with the mouse inside no link rectangle, it is not      *)
(* called.                                                                *)
(***************************************************************************)
HitLinks ==
    {i \in 1..Len(LinkAreas) :
        CheckCollisionPointRec(event.mousePos, ScreenBounds(LinkAreas[i], ScrollY))}

C11_ClickCallsBackOnce ==
    (lastCall = "Update" /\ OnLinkClick) =>
        IF event.pressed /\ HitLinks # {}
        THEN \E i \in HitLinks : clicked = <<LinkAreas[i].URL>>
        ELSE clicked = <<>>

\* a link of a scrolled document has been clicked and the callback has been
\* called with its URL
C11_Witness ==
    /\ lastCall = "Update"
    /\ OnLinkClick
    /\ event.pressed
    /\ ScrollY > 0
    /\ Len(LinkAreas) > 1
    /\ HitLinks # {}
    /\ Len(clicked) = 1

(***************************************************************************)
(* C12.  A panic of OnLinkClick during Update is contained: Update         *)
(* returns normally to the host.                                          *)
(***************************************************************************)
C12_CallbackFaultContained ==
    lastCall = "Update" => ~panicked

(***************************************************************************)
(* C13.  The stored link areas are in document space: for the document    *)
(* and origin of the last Render, the stored rectangles are those a       *)
(* Render at any other ScrollY stores; and while ScrollY is what it was   *)
(* at the last Render, Update hit-tests each link against the rectangle   *)
(* that Render drew.                                                      *)
(***************************************************************************)
Rects(areas) == [i \in 1..Len(areas) |-> areas[i].Bounds]

\* how far RenderDocument moves down over the document
ContentHeight(doc) == RenderDocument(doc, [X |-> 0, Y |-> 0, Width |-> 0]).NextY

\* w.ScrollY when Render last ran, read back from the TotalHeight it left
RenderedAt == TotalHeight - ContentHeight(document) - 2 * (BodyMargin + BodyPadding)

\* the rectangles the last Render drew its links at
DrawnRects ==
    Rects(RenderDocument(document,
                         [X |-> drawn.origin.X + BodyMargin + BodyPadding,
                          Y |-> drawn.origin.Y + BodyMargin + BodyPadding - RenderedAt,
                          Width |-> 860 - 2 * (BodyMargin + BodyPadding)]).LinkAreas)

ScrollOffsets == {0, WheelStep, ScrollCap} \cup HostScrolls

C13_LinkAreasInDocumentSpace ==
    WidgetHeight > 0 =>
        /\ \A s \in ScrollOffsets :
              Rects(StoredLinkAreas(document, drawn.origin, 860, s)) = Rects(LinkAreas)
        /\ (lastCall = "Update" /\ ~panicked /\ ScrollY = RenderedAt) =>
              \A i \in 1..Len(LinkAreas) :
                  LinkAreas[i].Hover
                      = CheckCollisionPointRec(event.mousePos, DrawnRects[i])

\* a document with links was rendered while scrolled, and an Update at the
\* same ScrollY has found the mouse over one of its links
C13_Witness ==
    /\ WidgetHeight > 0
    /\ lastCall = "Update"
    /\ ~panicked
    /\ ScrollY = RenderedAt
    /\ ScrollY > 0
    /\ \E i \in 1..Len(LinkAreas) : LinkAreas[i].Hover

(***************************************************************************)
(* C14.  An Update with no wheel movement and no button, made right after *)
(* another such Update with the mouse where it was, changes neither       *)
(* ScrollY nor any Hover flag, whatever ScrollY was before the first of   *)
(* the two.                                                               *)
(***************************************************************************)
Quiet(e) == e.wheel = 0 /\ ~e.pressed

C14_QuietUpdateIdempotent ==
    [][(/\ lastCall = "Update" /\ Quiet(event)
        /\ lastCall' = "Update" /\ Quiet(event')
        /\ event'.mousePos = event.mousePos)
       => (ScrollY' = ScrollY /\ LinkAreas' = LinkAreas /\ cursor' = cursor)]_vars

\* two quiet Updates in a row, the mouse over a link of a scrolled document
C14_Witness ==
    /\ idle = 2
    /\ ScrollY > 0
    /\ \E i \in 1..Len(LinkAreas) : LinkAreas[i].Hover

(***************************************************************************)
(* C15.  With one caller at a time, the count of a key is the number of   *)
(* GetFont calls minus the number of ReleaseFont calls made for it since  *)
(* it was last inserted; a key is in fm.fonts exactly when its count is   *)
(* at least 1; an entry leaves fm.fonts only by the release that brings   *)
(* its count to zero, which unloads its font unless it is the default     *)
(* font; a release of a key that has no count changes nothing.            *)
(***************************************************************************)
\* the handles of key given out and not yet released
HeldFor(key) == {h \in Handles : h[2] = key}

C15_CountsBalanced ==
    \A key \in FontKeys :
        /\ key \in DOMAIN fonts <=> key \in DOMAIN refCounts
        /\ key \in DOMAIN refCounts =>
              refCounts[key] >= 1 /\ refCounts[key] = Cardinality(HeldFor(key))
        /\ key \notin DOMAIN refCounts => HeldFor(key) = {}

C15_RemovedAtZero ==
    \A key \in DOMAIN fonts :
        /\ key \notin DOMAIN fonts' =>
              /\ refCounts[key] = 1
              /\ Cardinality(HeldFor(key)') = 0
              /\ key \notin DOMAIN refCounts'
              /\ ShouldUnload(fonts[key]) =>
                    (unloads' = Append(unloads, fonts[key])
                        /\ fonts[key].TextureID \notin live')
        /\ (refCounts[key] = 1 /\ Cardinality(HeldFor(key)') = 0) =>
              key \notin DOMAIN fonts'

C15_SequentialRefCounts == [](C15_CountsBalanced) /\ [][C15_RemovedAtZero]_vars

\* a font was loaded, released and unloaded, and a key is now held twice
C15_Witness ==
    /\ unloads # <<>>
    /\ \A t \in Threads : call[t].op = "idle"
    /\ \E key \in DOMAIN refCounts : refCounts[key] = 2

(***************************************************************************)
(* C16.  Whatever the interleaving of the GetFont and ReleaseFont calls   *)
(* of the threads, a handle that GetFont returned is not unloaded, and    *)
(* its key keeps an entry with a count of at least 1, until its caller    *)
(* releases it.                                                           *)
(***************************************************************************)
C16_HeldHandleStaysLoaded ==
    \A h \in Handles :
        LET key == h[2]
            font == held[h[1]][key][h[3]].font
        IN  /\ ShouldUnload(font) => font.TextureID \in live
            /\ key \in DOMAIN fonts
            /\ key \in DOMAIN refCounts
            /\ refCounts[key] >= 1

(***************************************************************************)
(* C17.  When two threads call GetFont or GetMonospaceFont for the same   *)
(* key and both miss in the first look, the font is loaded once: the      *)
(* thread that takes the lock second finds the entry of the first, both   *)
(* get the same handle, and the count of the key is 2.                    *)
(***************************************************************************)
\* thread t holds one handle of key and got it by the path given
HoldsBy(t, key, path) == Len(held[t][key]) = 1 /\ held[t][key][1].path = path

\* the step in which thread u returns from the exclusive section having found
\* the key, while thread t holds the handle it loaded and nothing else of it
C17_SecondFindsFirst ==
    \A key \in FontKeys : \A t, u \in Threads :
        (/\ t # u
         /\ HoldsBy(t, key, "loaded")
         /\ held[u][key] = <<>>
         /\ held'[t][key] = held[t][key]
         /\ Len(held'[u][key]) = 1
         /\ held'[u][key][1].path = "found") =>
            /\ held'[u][key][1].font = held[t][key][1].font
            /\ key \in DOMAIN fonts'
            /\ fonts'[key] = held[t][key][1].font
            /\ fonts' = fonts
            /\ loads' = loads
            /\ live' = live
            /\ refCounts'[key] = 2
            /\ ShouldUnload(fonts'[key]) => fonts'[key].TextureID \in live'

C17_ConcurrentMissLoadsOnce == [][C17_SecondFindsFirst]_vars

\* both threads missed the monospace font; one loaded it, the other found it
\* under the lock
C17_Witness ==
    \E t, u \in Threads :
        LET key == <<Str_monospace, 16>>
        IN  /\ HoldsBy(t, key, "loaded")
            /\ HoldsBy(u, key, "found")
            /\ ShouldUnload(held[t][key][1].font)
            /\ refCounts[key] = 2
            /\ loads = 1

(***************************************************************************)
(* C18.  The default font is never passed to rl.UnloadFont: when the      *)
(* count of a key that holds it reaches zero, the entry is deleted and    *)
(* nothing is unloaded.  A font other than the default is unloaded once,  *)
(* by the release that brings the count of its key to zero.               *)
(***************************************************************************)
C18_UnloadedOnceNeverDefault ==
    /\ \A i \in 1..Len(unloads) : unloads[i].TextureID # DefaultFont.TextureID
    /\ \A i, j \in 1..Len(unloads) : unloads[i] = unloads[j] => i = j

C18_UnloadAtZero ==
    /\ \A key \in DOMAIN refCounts :
          key \notin DOMAIN refCounts' =>
              /\ refCounts[key] = 1
              /\ key \notin DOMAIN fonts'
              /\ unloads' = IF key \in DOMAIN fonts /\ fonts[key] # DefaultFont
                            THEN Append(unloads, fonts[key]) ELSE unloads
    /\ unloads' # unloads =>
          \E key \in DOMAIN refCounts : key \notin DOMAIN refCounts'

C18_DefaultFontNeverUnloaded ==
    [](C18_UnloadedOnceNeverDefault) /\ [][C18_UnloadAtZero]_vars

\* two loaded fonts have been unloaded, and a key holds the default font
C18_Witness ==
    /\ Len(unloads) = 2
    /\ \E key \in DOMAIN fonts : fonts[key] = DefaultFont /\ refCounts[key] >= 1

(***************************************************************************)
(* C19.  After every GetTextSize the cache holds at most maxEntries       *)
(* entries.  A hit leaves every cached value as it was and moves its key  *)
(* to the most recently used end of the order.  A miss that takes the     *)
(* count over maxEntries evicts one key, the one whose last lookup is the *)
(* oldest.                                                                *)
(***************************************************************************)
KeyOf(lookup) == CacheKey(lookup.font, lookup.text, lookup.fontSize)

\* the place in the history of the last lookup of key (0: never looked up)
LastUse(history, key) ==
    LET uses == {i \in 1..Len(history) : KeyOf(history[i]) = key}
    IN  IF uses = {} THEN 0 ELSE CHOOSE i \in uses : \A j \in uses : j <= i

\* the cached key whose last lookup is the oldest
LeastRecentlyUsed ==
    CHOOSE k \in DOMAIN cache :
        \A other \in DOMAIN cache : LastUse(lookups, k) <= LastUse(lookups, other)

C19_Bounded ==
    /\ Cardinality(DOMAIN cache) <= maxEntries
    /\ Len(accessOrder) = Cardinality(DOMAIN cache)
    /\ \A i \in 1..Len(accessOrder) : accessOrder[i] \in DOMAIN cache
    /\ \A i, j \in 1..Len(accessOrder) :
          i < j => LastUse(lookups, accessOrder[i]) < LastUse(lookups, accessOrder[j])

C19_HitAndMiss ==
    lookups' # lookups =>
        LET lookup == lookups'[Len(lookups')]
            key == KeyOf(lookup)
        IN  IF key \in DOMAIN cache
            THEN /\ cache' = cache
                 /\ accessOrder'[Len(accessOrder')] = key
                 /\ SelectSeq(accessOrder', LAMBDA k : k # key)
                        = SelectSeq(accessOrder, LAMBDA k : k # key)
            ELSE /\ DOMAIN cache' =
                        IF Cardinality(DOMAIN cache) + 1 > maxEntries
                        THEN (DOMAIN cache \ {LeastRecentlyUsed}) \cup {key}
                        ELSE DOMAIN cache \cup {key}
                 /\ \A k \in DOMAIN cache' \ {key} : cache'[k] = cache[k]
                 /\ cache'[key] = MeasureTextEx(lookup.font, lookup.text, lookup.fontSize)
                 /\ accessOrder'[Len(accessOrder')] = key

C19_LeastRecentlyUsedEvicted == [](C19_Bounded) /\ [][C19_HitAndMiss]_vars

\* a key was hit, a later miss took the cache over its capacity, and the key
\* evicted is one looked up after the first lookup of the key that was hit,
\* which is still cached
C19_Witness ==
    /\ Cardinality(DOMAIN cache) = maxEntries
    /\ \E i \in 1..Len(lookups) : KeyOf(lookups[i]) \notin DOMAIN cache
    /\ \E i, j, m \in 1..Len(lookups) :
          /\ i < j /\ j < m
          /\ KeyOf(lookups[i]) = KeyOf(lookups[j])
          /\ KeyOf(lookups[i]) \in DOMAIN cache
          /\ KeyOf(lookups[m]) = accessOrder[Len(accessOrder)]
          /\ LastUse(lookups, KeyOf(lookups[m])) = m
          /\ \A n \in 1..(m - 1) : KeyOf(lookups[n]) # KeyOf(lookups[m])
          /\ \E n \in 1..(j - 1) : /\ KeyOf(lookups[n]) \notin DOMAIN cache
                                    /\ LastUse(lookups, KeyOf(lookups[n])) > i

(***************************************************************************)
(* C20.  Once a lookup for a face and size has carried a handle id other  *)
(* than the id seen before for that face and size, the cache holds no     *)
(* measurement keyed by the earlier id: every cached key of a face and    *)
(* size carries the id last seen for them.                                *)
(***************************************************************************)
FaceOf(id) == (CHOOSE f \in TextFonts : f.ID = id).Face

\* the handle id of the last lookup made for the face and size
LastSeenID(face, fontSize) ==
    LET seen == {i \in 1..Len(lookups) :
                    lookups[i].font.Face = face /\ lookups[i].fontSize = fontSize}
    IN  lookups[CHOOSE i \in seen : \A j \in seen : j <= i].font.ID

C20_StaleMeasurementsRemoved ==
    \A key \in DOMAIN cache : key[1] = LastSeenID(FaceOf(key[1]), key[2])

(***************************************************************************)
(* C21.  The word splitter returns every token of at most 30 code points  *)
(* unchanged as one piece, and splits every longer token that has none of *)
(* the marks of a URL into pieces of at most 25 code points each.         *)
(***************************************************************************)
\* the tokens of segment i, as strings.Fields delimits them
TokensOf(i) == Fields(segments[i].text)

C21_SplitByCodePoints ==
    pieces.Called =>
        \A i \in 1..Len(segments) : \A k \in 1..Len(TokensOf(i)) :
            LET token == TokensOf(i)[k]
                out == pieces.ByToken[i][k]
            IN  /\ RuneCount(token) <= MaxWordLen => out = <<token>>
                /\ (RuneCount(token) > MaxWordLen /\ ~URLish(token)) =>
                       \A j \in 1..Len(out) : RuneCount(out[j]) <= ChunkLen

\* the same statement with lengths counted in bytes, as len counts them
C21_SplitByBytes ==
    pieces.Called =>
        \A i \in 1..Len(segments) : \A k \in 1..Len(TokensOf(i)) :
            LET token == TokensOf(i)[k]
                out == pieces.ByToken[i][k]
            IN  /\ Len(token) <= MaxWordLen => out = <<token>>
                /\ (Len(token) > MaxWordLen /\ ~URLish(token)) =>
                       \A j \in 1..Len(out) : Len(out[j]) <= ChunkLen

(***************************************************************************)
(* C22.  The pieces the word splitter returns for a token, those of the   *)
(* break-point path of a URL included, concatenate in order to the token. *)
(***************************************************************************)
C22_PiecesConcatenate ==
    pieces.Called =>
        \A i \in 1..Len(segments) :
            /\ Len(pieces.ByToken[i]) = Len(TokensOf(i))
            /\ \A k \in 1..Len(TokensOf(i)) : Cat(pieces.ByToken[i][k]) = TokensOf(i)[k]

\* a URL has been split at break points, a fragment starting with its separator
C22_Witness ==
    /\ pieces.Called
    /\ \E i \in 1..Len(segments) : \E k \in 1..Len(TokensOf(i)) :
          /\ Len(TokensOf(i)[k]) > MinURLLen
          /\ URLish(TokensOf(i)[k])
          /\ Len(pieces.ByToken[i][k]) >= 3
          /\ \E j \in 2..Len(pieces.ByToken[i][k]) :
                /\ Len(pieces.ByToken[i][k][j]) > 1
                /\ pieces.ByToken[i][k][j][1] \in {"/", "?", "&", "=", ".", "-"}

(***************************************************************************)
(* C23.  Every line the wrapping draws with two or more words on it has a *)
(* measured width of at most the available width, ctx.Width less          *)
(* BodyMargin+BodyPadding; only a line of a single word may exceed it.    *)
(***************************************************************************)
WordsOn(line) == Cardinality({j \in 1..Len(line) : line[j].text # <<" ">>})

C23_LinesFit ==
    wrapResult # NotWrapped =>
        \A l \in 1..Len(wrapResult.Lines) :
            WordsOn(wrapResult.Lines[l]) >= 2 =>
                LineWidth(wrapResult.Lines[l])
                    <= wrapCtx.Width - (BodyMargin + BodyPadding)

(***************************************************************************)
(* C24.  After Render every rectangle of LinkAreas lies inside the        *)
(* content box: from content_x to content_x + content_width across, and   *)
(* from the top of the document to that top plus TotalHeight down.        *)
(***************************************************************************)
\* the top of the document as the last Render placed it, in document space
DocumentTop == drawn.origin.Y + BodyMargin + BodyPadding

C24_LinkAreasInContentBox ==
    rendered.Called =>
        \A i \in 1..Len(LinkAreas) :
            LET bounds == LinkAreas[i].Bounds
            IN  /\ bounds.X >= rendered.Ctx.X
                /\ bounds.X + bounds.Width <= rendered.Ctx.X + rendered.Ctx.Width
                /\ bounds.Y >= DocumentTop
                /\ bounds.Y + bounds.Height <= DocumentTop + TotalHeight

\* the same without the limit on the right
C24_LinkAreasBelowTopLeft ==
    rendered.Called =>
        \A i \in 1..Len(LinkAreas) :
            LET bounds == LinkAreas[i].Bounds
            IN  /\ bounds.X >= rendered.Ctx.X
                /\ bounds.Y >= DocumentTop
                /\ bounds.Y + bounds.Height <= DocumentTop + TotalHeight

(***************************************************************************)
(* C25.  A handler given a node with nothing to render, no children or    *)
(* only empty text, returns the Y it was given and no link area.          *)
(***************************************************************************)
\* the tags whose handlers render the content of their node
ContentTags ==
    {Str_span, Str_a, Str_h1, Str_h2, Str_h3, Str_h4, Str_h5, Str_h6, Str_p,
     Str_ul, Str_ol, Str_li, Str_pre, Str_code}

NoRenderableContent(ns, k) ==
    IF ns[k].Type = NodeTypeText THEN TrimSpace(ns[k].Content) = <<>>
    ELSE /\ ns[k].Tag \in ContentTags
         /\ \A j \in ChildrenOf(ns, k) :
               ns[j].Type = NodeTypeText /\ TrimSpace(ns[j].Content) = <<>>

C25_EmptyNodeLeavesCursor ==
    rendered.Called =>
        \A j \in 1..Len(rendered.Out.Each) :
            LET each == rendered.Out.Each[j]
            IN  NoRenderableContent(nodes, each.Node) =>
                    /\ each.Result.NextY = each.Y
                    /\ each.Result.LinkAreas = <<>>

\* the handlers that do return the Y they were given
C25_EmptyInlineLeavesCursor ==
    rendered.Called =>
        \A j \in 1..Len(rendered.Out.Each) :
            LET each == rendered.Out.Each[j]
            IN  (NoRenderableContent(nodes, each.Node)
                 /\ nodes[each.Node].Tag \in {Str_span, Str_a, Str_pre, Str_code}) =>
                    /\ each.Result.NextY = each.Y
                    /\ each.Result.LinkAreas = <<>>

(***************************************************************************)
(* C29.  RenderDocument returns as Height the extent the document took,   *)
(* its NextY less the Y of the context it was called with, and as NextY   *)
(* the NextY of the last child of the root, each child rendered at the    *)
(* NextY of the one before.                                                *)
(***************************************************************************)
\* every child of the root is rendered where the one before it ended
C29_ChildrenChained ==
    rendered.Called =>
        LET each == rendered.Out.Each
        IN  /\ Len(each) = Cardinality(ChildrenOf(nodes, 1))
            /\ \A j \in 1..Len(each) :
                  each[j].Y = IF j = 1 THEN rendered.Ctx.Y ELSE each[j - 1].Result.NextY
            /\ rendered.Out.Result.NextY =
                  IF each = <<>> THEN rendered.Ctx.Y ELSE each[Len(each)].Result.NextY

C29_HeightIsExtent ==
    /\ C29_ChildrenChained
    /\ rendered.Called =>
          rendered.Out.Result.Height = rendered.Out.Result.NextY - rendered.Ctx.Y

(***************************************************************************)
(* C30.  In an ordered list the k-th li child, counting li children only, *)
(* is drawn with the marker "k.", whatever other children come before it. *)
(***************************************************************************)
\* the place of item k among the li children of its list, from 1
PlaceAmongItems(ns, k) ==
    1 + Cardinality({j \in ChildrenOf(ns, ns[k].Parent) : j < k /\ ns[j].Tag = Str_li})

C30_MarkerCountsItems ==
    rendered.Called =>
        \A m \in 1..Len(rendered.Out.Result.Markers) :
            LET marker == rendered.Out.Result.Markers[m]
            IN  nodes[nodes[marker.Item].Parent].Tag = Str_ol =>
                    marker.Text = Itoa(PlaceAmongItems(nodes, marker.Item)) \o <<".">>

(***************************************************************************)
(* C26.  NewHTMLWidget followed by one Unload leaves every reference      *)
(* count of the font manager as it was before the widget was made, each   *)
(* key released as often as it was acquired, and leaves the measurement   *)
(* cache of the widget empty; once every widget made has been unloaded,   *)
(* the manager holds no entry.                                             *)
(***************************************************************************)
LiveWidgets == {w \in WidgetIds : widgets[w].state = "live"}

\* how many times loadFonts asks for key
Acquired(key) == Cardinality({k \in 1..Len(LoadKeys) : LoadKeys[k] = key})

WidgetKeys == {LoadKeys[k] : k \in 1..Len(LoadKeys)}

\* every count is what the widgets made and not yet unloaded have acquired
C26_CountsOfLiveWidgets ==
    /\ DOMAIN refCounts \subseteq WidgetKeys
    /\ DOMAIN fonts = DOMAIN refCounts
    /\ DOMAIN fontStatus = DOMAIN refCounts
    /\ \A key \in WidgetKeys :
          IF LiveWidgets = {} THEN key \notin DOMAIN refCounts
          ELSE /\ key \in DOMAIN refCounts
               /\ refCounts[key] = Cardinality(LiveWidgets) * Acquired(key)

\* a widget made and unloaded while no other widget was made or unloaded has
\* left the counts as they were, and its cache is empty
C26_UnloadRestoresCounts ==
    \A w \in WidgetIds :
        widgets[w].state = "unloaded" =>
            /\ widgets[w].textCache = EmptyCache
            /\ (\A v \in WidgetIds \ {w} : widgets[v].state = widgets[w].others[v])
                   => refCounts = widgets[w].before

C26_UnloadBalancesLoad ==
    /\ C26_CountsOfLiveWidgets
    /\ C26_UnloadRestoresCounts
    /\ LiveWidgets = {} => (fonts = <<>> /\ refCounts = <<>> /\ fontStatus = <<>>)

\* a widget has been made and unloaded beside one that holds its fonts and has
\* measured, and another run has unloaded every widget it made
C26_Witness ==
    \E w \in WidgetIds :
        /\ widgets[w].state = "unloaded"
        /\ widgets[w].before # <<>>
        /\ \E v \in LiveWidgets :
              /\ widgets[w].others[v] = "live"
              /\ widgets[v].textCache.cache # <<>>
        /\ refCounts = widgets[w].before
        /\ refCounts[<<Str_arial, 16>>] = 2

(***************************************************************************)
(* C27.  A tag whose name is empty or longer than 20 characters is        *)
(* discarded without a node; going past the maximum of 100 errors never   *)
(* stops Parse: after any number of invalid tags the parser is back in    *)
(* StateText, and the valid tag that follows and its text are added to    *)
(* the tree.                                                               *)
(***************************************************************************)
\* the tree of the paragraph alone
ParagraphTree ==
    LET p == NewElement(Str_p, EmptyAttrs, <<[Node |-> 1, OriginalTag |-> Str_document]>>,
                        <<RootNode>>)
    IN  <<RootNode, p,
          [Type |-> NodeTypeText, Tag |-> <<>>, Content |-> <<"y">>,
           Attributes |-> EmptyAttrs, Context |-> ContextInline, Parent |-> 2]>>

LongInputs_Recovery == {h \in RecoveryInputs : h \notin {AfterInvalid(bad, n) : bad \in {AccentedTag, EmptyTag}, n \in InvalidCounts}}

\* a step of finishOpenTag or finishSelfClosingTag on a name the check rejects
InvalidTagStep ==
    /\ Running
    /\ char = ">"
    /\ LoopState \in {StateTagName, StateAttributes, StateAttributeName,
                      StateAttributeValue, StateTagClose}
    /\ ~ValidTagName(ToLower(tagBuffer))

\* the invalid tags leave nothing in the tree, Parse reads to the end of the
\* input, and the paragraph after them is in the tree
C27_InvalidTagsDiscarded ==
    pc = "done" =>
        /\ position = Len(input)
        /\ state = StateText
        /\ nodes = ParagraphTree

\* the same for the tags whose names are longer than 20 bytes, with one error
\* counted for each of them
C27_LongTagsDiscarded ==
    /\ [][InvalidTagStep =>
             nodes' = nodes /\ state' = StateText /\ pc' = "parsing"
                 /\ errorCount' = errorCount + 1]_vars
    /\ [](html \in LongInputs_Recovery /\ pc = "done" =>
             /\ position = Len(input)
             /\ state = StateText
             /\ nodes = ParagraphTree
             /\ errorCount \in InvalidCounts)

C27_Witness ==
    /\ html \in LongInputs_Recovery
    /\ pc = "done"
    /\ errorCount > maxErrors
    /\ nodes = ParagraphTree

(***************************************************************************)
(* C28.  In the nowser host the OnLinkClick callback never unloads or     *)
(* replaces the widget it was called on: a click on a link only records a *)
(* load (pending content, or a goroutine that will record it), and the    *)
(* widget of a tab is unloaded and replaced only by the pending-content   *)
(* step of the main loop, which runs outside Widget.Update().              *)
(***************************************************************************)
\* the main thread is inside Widget.Update()
InsideUpdate == app.phase \in {"update", "callback", "returning"}

\* the widget of the tab of identity id in a, or -1 when a has no such tab
WidgetOfTab(a, id) ==
    IF \E i \in 1..Len(a.tabs) : a.tabs[i].id = id
    THEN a.tabs[CHOOSE i \in 1..Len(a.tabs) : a.tabs[i].id = id].Widget ELSE -1

TabIds(a) == {a.tabs[i].id : i \in 1..Len(a.tabs)}

\* tab id keeps its widget, and no widget object changes
WidgetsKept ==
    /\ app'.objs = app.objs
    /\ TabIds(app') = TabIds(app)
    /\ \A id \in TabIds(app) : WidgetOfTab(app', id) = WidgetOfTab(app, id)

\* the tab at index i as the callback may leave it: only the fields of a load
\* differ
OnlyLoadRecorded(i) ==
    /\ Len(app'.tabs) = Len(app.tabs)
    /\ app'.activeTabIndex = app.activeTabIndex
    /\ \A j \in 1..Len(app.tabs) :
          /\ app'.tabs[j].id = app.tabs[j].id
          /\ app'.tabs[j].Widget = app.tabs[j].Widget
          /\ app'.tabs[j].URL = app.tabs[j].URL
          /\ j # i => app'.tabs[j] = app.tabs[j]
    /\ \/ app'.tabs[i].HasPending /\ ~app'.tabs[i].Loading /\ app'.fetches = app.fetches
       \/ /\ app'.tabs[i].Loading
          /\ app.fetches \subseteq app'.fetches
          /\ \E f \in app'.fetches : f.tab = app.tabs[i].id /\ f.content = 0 /\ ~f.flag
          /\ app'.tabs[i].HasPending = app.tabs[i].HasPending

\* a step of the pending-content loop of update() on a tab with pending content
PendingStep ==
    /\ app.phase = "pending"
    /\ app'.phase \in {"pending", "keyboard"}
    /\ app.cursor \in 1..Len(app.tabs)
    /\ app.tabs[app.cursor].HasPending

\* a tab that stays open has its widget changed by the pending step alone, the
\* old widget unloaded and the new one live
ReplacedByPendingStep ==
    \A id \in TabIds(app) \cap TabIds(app') :
        WidgetOfTab(app', id) # WidgetOfTab(app, id) =>
            /\ PendingStep
            /\ app.tabs[app.cursor].id = id
            /\ WidgetOfTab(app, id) # 0 =>
                   /\ app.objs[WidgetOfTab(app, id)].state = "live"
                   /\ app'.objs[WidgetOfTab(app, id)].state = "unloaded"
            /\ WidgetOfTab(app', id) = Len(app.objs) + 1
            /\ app'.objs[WidgetOfTab(app', id)].state = "live"

\* the widget of every open tab is live: nothing unloads a widget that a tab
\* still holds
TabWidgetsLive ==
    app.phase \notin {"none", "exited"} =>
        \A i \in 1..Len(app.tabs) :
            app.tabs[i].Widget # 0 => app.objs[app.tabs[i].Widget].state = "live"

C28_ClickOnlyRecordsLoad ==
    /\ [][InsideUpdate => WidgetsKept]_vars
    /\ [][app.phase = "callback" /\ app'.phase = "returning"
              => OnlyLoadRecorded(currentTab(app))]_vars
    /\ [][ReplacedByPendingStep]_vars
    /\ []TabWidgetsLive

\* a click has recorded pending content on a tab whose widget had itself
\* replaced an earlier one, and Update is about to return with the widget live
C28_Witness ==
    /\ app.phase = "returning"
    /\ currentTab(app) # 0
    /\ app.tabs[currentTab(app)].HasPending
    /\ app.tabs[currentTab(app)].Widget > 1
    /\ app.objs[app.tabs[currentTab(app)].Widget].state = "live"
    /\ \E w \in 1..Len(app.objs) : app.objs[w].state = "unloaded"

(***************************************************************************)
(* C31.  calculateColumnWidths gives column widths that sum to the        *)
(* available width in each of its three branches (the preferred widths    *)
(* fit; only the minimum widths fit; neither fits), and whenever the      *)
(* minimum widths together are at most the available width every column   *)
(* gets at least its minimum width.                                        *)
(***************************************************************************)
Sized == table.phase = "sized" /\ table.ColumnCount > 0

\* the widths of one table share a denominator
CommonDen == table.ColumnWidths[1].den

SumOfNums == SumSeq([i \in 1..table.ColumnCount |-> table.ColumnWidths[i].num])

PrefFit == SumSeq(table.PrefWidths) <= table.Available
MinFit == SumSeq(table.MinWidths) <= table.Available

C31_PrefBranchTaken ==
    Sized /\ PrefFit /\ SumSeq(table.PrefWidths) < table.Available

C31_EqualBranchTaken == Sized /\ ~MinFit

(***************************************************************************)
(* C32.  The scroll range of a document is fixed: a Render that starts    *)
(* from a scroll offset within the range of the document computes the     *)
(* same TotalHeight, H + 2*(BodyMargin+BodyPadding), whatever the offset, *)
(* and an Update that follows never leaves ScrollY above                  *)
(* max(0, H + 2*(BodyMargin+BodyPadding) - viewport height).              *)
(***************************************************************************)
FullHeight(doc) == ContentHeight(doc) + 2 * (BodyMargin + BodyPadding)

MaxScrollOf(doc) == Max(0, FullHeight(doc) - widgetHeight)

InScrollRange == 0 <= ScrollY /\ ScrollY <= MaxScrollOf(document)

C32_ScrollRangeFixed ==
    /\ [][(InScrollRange /\ lastCall' = "Render")
              => TotalHeight' = FullHeight(document)]_vars
    /\ [][(InScrollRange /\ TotalHeight = FullHeight(document) /\ lastCall' = "Update")
              => ScrollY' <= MaxScrollOf(document)]_vars

(***************************************************************************)
(* C33.  Every text node of the parsed tree is drawn by RenderDocument:   *)
(* once the page has been rendered, each text node with content that      *)
(* hangs under the root, at any depth and under any element, is among the *)
(* text nodes a handler passed to a drawing call.                         *)
(***************************************************************************)
RECURSIVE Under(_, _)
Under(ns, k) == ChildrenOf(ns, k) \cup UNION {Under(ns, j) : j \in ChildrenOf(ns, k)}

TextNodesOfTree(ns) ==
    {j \in Under(ns, 1) : ns[j].Type = NodeTypeText /\ ns[j].Content # <<>>}

C33_EveryTextDrawn ==
    rendered.Called => TextNodesOfTree(nodes) \subseteq DrawnInDocument(nodes)

(***************************************************************************)
(* C34.  A second Unload of a widget leaves the font manager as it was:   *)
(* a step that neither makes a widget nor unloads one for the first time  *)
(* changes no entry of the manager, and while a widget is live every key  *)
(* it acquired is loaded with a count of at least the number of live      *)
(* widgets.                                                                *)
(***************************************************************************)
SameWidgetStates == \A w \in WidgetIds : widgets'[w].state = widgets[w].state

HeldFontsLoaded ==
    LiveWidgets # {} =>
        \A key \in WidgetKeys :
            /\ key \in DOMAIN fonts
            /\ key \in DOMAIN refCounts
            /\ refCounts[key] >= Cardinality(LiveWidgets)

C34_SecondUnloadHarmless ==
    /\ [][SameWidgetStates => UNCHANGED <<fonts, refCounts, fontStatus>>]_vars
    /\ []HeldFontsLoaded

(***************************************************************************)
(* C35.  The content, title and URL a pending-content step applies to a   *)
(* tab come from one load: when update() replaces the widget of a tab,    *)
(* PendingHTML, PendingTitle and PendingURL are what a single load that   *)
(* succeeded, or a single load that failed, stored.  Only the steps are   *)
(* judged where no load of the tab under way has had its HasPending seen  *)
(* ahead of its content, so that the stores of each load are seen in the  *)
(* order of its statements.                                               *)
(***************************************************************************)
\* the urls a load stores in PendingURL
LoadedURLs == {Url_indexFile, Url_example, Url_fileA, Url_fileC, Url_exampleC, Url_httpsC}

FromOneLoad(tab) ==
    \/ /\ tab.PendingHTML = PageHTML
       /\ tab.PendingTitle = PageTitle
       /\ tab.PendingURL \in LoadedURLs
    \/ /\ tab.PendingHTML = ErrorHTML
       /\ tab.PendingTitle = ErrorTitle
       /\ tab.PendingURL = ""

\* update() applies the pending content of the tab at the cursor
AppliesPending(i) ==
    /\ app.phase = "pending"
    /\ i = app.cursor /\ i <= Len(app.tabs)
    /\ app.tabs[i].HasPending
    /\ Len(app'.objs) = Len(app.objs) + 1
    /\ app'.tabs[i].Widget = Len(app'.objs)

\* no load of the tab at index i has stored HasPending ahead of its content
FlagsInOrder(i) == \A f \in app.fetches : f.tab = app.tabs[i].id => ~f.flag

C35_PendingFromOneLoad ==
    [][\A i \in 1..MaxTabs :
          (AppliesPending(i) /\ FlagsInOrder(i)) => FromOneLoad(app.tabs[i])]_vars

(***************************************************************************)
(* C36.  Segment wrapping neither drops, duplicates nor reorders words:   *)
(* the lines drawn, read top to bottom and left to right without the      *)
(* single spaces put between the words of a line, are the pieces of the   *)
(* word splitter over the segments in order, each with the font, the      *)
(* color and the href of its segment.                                      *)
(***************************************************************************)
\* the segments of a line at the odd places, where the words are
WordsOfLine(line) == [j \in 1..((Len(line) + 1) \div 2) |-> line[2 * j - 1]]

\* each even place of a line holds the space put before the next word
SpacesBetween(line) ==
    /\ Len(line) % 2 = 1
    /\ \A j \in 1..(Len(line) \div 2) :
          /\ line[2 * j].text = <<" ">>
          /\ line[2 * j].href = <<>>

DrawnWords(lines) == Cat([l \in 1..Len(lines) |-> WordsOfLine(lines[l])])

\* the pieces the splitter gave for segment i, as they are to be drawn
PiecesOf(i) ==
    LET words == Cat(pieces.ByToken[i])
    IN  [k \in 1..Len(words) |->
            [text |-> words[k], font |-> segments[i].font,
             color |-> segments[i].color, href |-> segments[i].href]]

BothCalled == pieces.Called /\ wrapResult # NotWrapped

C36_WordsKeptInOrder ==
    BothCalled =>
        /\ \A l \in 1..Len(wrapResult.Lines) : SpacesBetween(wrapResult.Lines[l])
        /\ DrawnWords(wrapResult.Lines) = Cat([i \in 1..Len(segments) |-> PiecesOf(i)])

\* three segments of three fonts drawn on more than one line, a line holding
\* words of two segments
C36_Witness ==
    /\ BothCalled
    /\ Len(segments) = 3
    /\ Len(wrapResult.Lines) > 1
    /\ \E l \in 1..Len(wrapResult.Lines) :
          \E j, k \in 1..Len(wrapResult.Lines[l]) :
              /\ wrapResult.Lines[l][j].font # wrapResult.Lines[l][k].font
              /\ wrapResult.Lines[l][j].href # <<>>

(***************************************************************************)
(* C37.  Parse leaks no state between calls: the tree Parse returns for   *)
(* an input on a parser that has parsed another input before, whatever    *)
(* state that call ended in, is the tree it returned for the same input   *)
(* on the fresh parser.                                                   *)
(***************************************************************************)
C37_SameTreeAsFresh ==
    (pc = "done" /\ past # <<>>) =>
        \A k \in 1..Len(past) : past[k].html = html => past[k].nodes = nodes

\* the input parsed on the fresh parser has been parsed again after the input
\* that exhausts the error budget
C37_AfterExhaustion ==
    /\ pc = "done"
    /\ Len(past) = 2
    /\ past[1].html = html
    /\ past[2].html = ExhaustingInput
    /\ errorCount = 1
    /\ Len(nodes) > 2

\* and after an input that ends inside a quoted value
C37_Witness ==
    /\ pc = "done"
    /\ Len(past) = 2
    /\ past[1].html = html
    /\ past[2].html = <<"<", "a", " ", "h", "r", "e", "f", "=", "\"", "u">>
    /\ html = Paragraph \o <<"x">>

(***************************************************************************)
(* C38.  An end tag whose name matches no entry of the stack, neither by  *)
(* the tag of its node nor by its original tag, leaves the stack,         *)
(* currentDepth and the tree as they were, and the parser goes on in      *)
(* Text state.                                                             *)
(***************************************************************************)
\* the loop is about to handle the '>' of an end tag
AtEndOfEndTag == Running /\ LoopState = StateEndTag /\ char = ">"

MatchesNoEntry(tagName) ==
    \A i \in 1..Len(nodeStack) :
        /\ nodes[nodeStack[i].Node].Tag # tagName
        /\ nodeStack[i].OriginalTag # tagName

C38_UnmatchedEndTagNoEffect ==
    [][(AtEndOfEndTag /\ MatchesNoEntry(ToLower(tagBuffer)))
          => /\ nodeStack' = nodeStack
             /\ currentDepth' = currentDepth
             /\ nodes' = nodes
             /\ state' = StateText]_vars

\* the text between "</" at place j and the '>' just handled
EndTagNameFrom(j) == SubSeq(input, j + 2, position - 1)

\* the '>' of an end tag with a name has just been handled inside an open
\* element, and the name matches no entry of the stack
C38_Witness ==
    /\ pc = "parsing"
    /\ state = StateText
    /\ position >= 4
    /\ input[position] = ">"
    /\ Len(nodeStack) > 1
    /\ \E j \in 1..(position - 3) :
          /\ input[j] = "<" /\ input[j + 1] = "/"
          /\ \A k \in (j + 2)..(position - 1) :
                input[k] \notin {"<", ">", " ", "\t", "\n", "/", "!"}
          /\ MatchesNoEntry(ToLower(EndTagNameFrom(j)))

(***************************************************************************)
(* C39.  From the call of Parse to its return the stack of the parser is  *)
(* not empty and holds the entry of the document root at the bottom, and  *)
(* after every character the loop has handled currentDepth is             *)
(* len(nodeStack) - 1.                                                     *)
(***************************************************************************)
InParse == pc \in {"parsing", "done"}

RootAtBottom ==
    /\ Len(nodeStack) >= 1
    /\ nodeStack[1] = [Node |-> 1, OriginalTag |-> Str_document]
    /\ nodes[1].Type = NodeTypeDocument

DepthTracksStack == currentDepth = Len(nodeStack) - 1

\* the claim for every input, the empty string among them
C39_RootStaysDepthTracks ==
    InParse => (RootAtBottom /\ (pc = "parsing" => DepthTracksStack))

\* the claim for the inputs that are not the empty string
C39_RootStaysDepthTracksNonEmpty ==
    (InParse /\ Len(html) > 0) =>
        (RootAtBottom /\ (pc = "parsing" => DepthTracksStack))

\* the loop has just handled the '>' of </document> inside an open element
C39_Witness ==
    /\ pc = "parsing"
    /\ Len(nodeStack) > 1
    /\ position > Len(CloseTag(Str_document))
    /\ SubSeq(input, position - Len(CloseTag(Str_document)) + 1, position)
           = CloseTag(Str_document)

=============================================================================
